---- MODULE Spec2Model ----
(***************************************************************************)
(* Model of the rune-airdrop controller core:                              *)
(*   - LockManager      (src/src/utils/lock-manager.ts)                    *)
(*   - ProfileManager / FileManager save path                              *)
(*                      (src/src/core/profile-manager.ts,                  *)
(*                       src/src/utils/file-manager.ts)                    *)
(*   - SnipeEngine      (src/unnamed/part_001)                             *)
(*   - NetworkDetector  (src/src/core/network-detector.ts)                 *)
(* Each component has its own specification (SpecLock, SpecStore,          *)
(* SpecEngine, SpecNet); the variables of the other components stay at     *)
(* their initial values.                                                    *)
(***************************************************************************)
EXTENDS Integers, Sequences, FiniteSets, TLC

(***************************************************************************)
(* Bounds of the model                                                     *)
(***************************************************************************)
\* number of clock ticks the model lets pass
MaxTicks == 3

\* operating-system processes running the controller (their pids)
Procs == {"p1", "p2"}

\* profile directories, in the order fs.readdir lists them
ProfileOrder == <<"profA", "profB">>
Profiles == {ProfileOrder[i] : i \in 1..Len(ProfileOrder)}

\* the profile whose lock the processes contend for
Contended == {ProfileOrder[1]}

(***************************************************************************)
(* LockManager                                                             *)
(***************************************************************************)
\* LockManager.STALE_LOCK_TIMEOUT, in milliseconds
STALE_LOCK_TIMEOUT == 5 * 60 * 1000

\* milliseconds that pass in one tick of the model's clock
TickMs == 3 * 60 * 1000

\* readLockFile returns null when there is no (readable) lock file
NoLock == [pid |-> "none", timestamp |-> -1]

\* ProfileLock records (profileName and hostname play no part in any decision)
ProfileLock == [pid : Procs, timestamp : {t * TickMs : t \in 0..(MaxTicks + 1)}]

\* positions of a process inside acquireLock
AcqPcs == {"acq_read", "acq_stale", "acq_remove", "acq_write"}

VARIABLES
  now,          \* wall clock, ms
  alive,        \* alive[p]: process p exists (process.kill(pid, 0) succeeds)
  lockFile,     \* lockFile[f]: content of <profile f>/.lock, or NoLock
  pc,           \* pc[p]: position of process p
  arg,          \* arg[p]: profile the current call of p works on
  existingLock, \* existingLock[p]: local of acquireLock
  acqResult,    \* acqResult[p]: what p's latest acquireLock returned
  held,         \* held[p]: profiles p acquired and did not release since
  overlapped,   \* overlapped[p]: processes whose latest acquireLock call on
                \* the same profile overlapped in time with p's latest call
  rival,        \* rival[p]: the live process that held the lock, its record in
                \* place, when p's latest acquireLock call began and that has
                \* not called releaseLock since, or "none"
  diedAt        \* diedAt[p]: position of p when it was killed

\* the profile store (one profile directory)
VARIABLES
  configFile,   \* content of config.json
  tmpFile,      \* content of config.json.tmp
  backups,      \* backups[n]: content of config.json.backup-<timestamp n>
  bkSeq,        \* timestamp of the latest backup name handed out
  nextVer,      \* number of saveProfile calls made so far
  saveVal,      \* saveVal[p]: the aggregate p's current saveProfile writes
  fdOn,         \* fdOn[p]: the file p's open descriptor refers to
  saveResult,   \* saveResult[p]: how p's latest saveProfile ended
  lastSave,     \* prior and new aggregate of the latest saveProfile call
  lastRead,     \* lastRead[p]: what p's latest readJsonFile returned, and
                \* whether a process had been killed inside saveProfile by then
  lockedAtCall  \* lockedAtCall[p]: whether p held a valid lock on the profile
                \* when its latest saveProfile call began

\* the snipe engine
VARIABLES
  executionOptions, \* [maxRetries, retryDelay, maxRetryDelay, executeInParallel],
                    \* fixed by the constructor
  isExecuting,      \* SnipeEngine.isExecuting
  activeWallets,    \* keys of SnipeEngine.activeWallets
  runSt,            \* runSt[r]: "off", "free", "running", "returned" or "threw"
  runSnipes,        \* runSnipes[r]: activeSnipes of call r
  task,             \* task[r][s]: executeSingleSnipe(s) of call r
  done,             \* done[r]: the snipes of call r in the order in which their
                    \* executeSingleSnipe promises were settled
  results,          \* results[r]: the SnipeResult list call r returned
  lastCall          \* how the latest executeSnipes call was received, and
                    \* whether an earlier call was still in progress then

engineVars == <<executionOptions, isExecuting, activeWallets, runSt, runSnipes, task,
               done, results, lastCall>>

\* the network detector
VARIABLES
  isPolling,           \* NetworkDetector.isPolling
  pollTimer,           \* the timer pollTimer refers to: "none", "pending", "fired"
  orphanTimers,        \* pending timers that pollTimer no longer refers to
  clientNetwork,       \* FlashNetClient.currentNetwork
  currentStatus,       \* NetworkDetector.currentStatus
  consecutiveFailures, \* NetworkDetector.consecutiveFailures
  checks,              \* checks[c]: a performHealthCheck call awaiting its ping
  lastCheck,           \* what the latest completed check stored, replaced and emitted
  transitions,         \* the latest two transition events emitted
  waiter,              \* the latest waitForOnline call: its deadline, its timer,
                       \* its network:online listener, and how it was settled
  lastOp               \* how the latest step of the detector ended: "ok", "warned"
                       \* (a warning only), "idle" (nothing to do) or "throws"

netVars == <<isPolling, pollTimer, orphanTimers, clientNetwork, currentStatus,
             consecutiveFailures, checks, lastCheck, transitions, waiter, lastOp>>

\* the command-line interface
VARIABLES
  uiMode,               \* where the interface is: "menu", "starting" (inside
                        \* handleStartMonitoring, awaiting startMonitoring) or
                        \* "monitoring" (inside enterMonitoringMode)
  mainnetOnlineListener \* whether a listener of 'mainnet:online' is registered

ctlVars == <<uiMode, mainnetOnlineListener>>

\* cleanupStaleLocks
VARIABLES
  scanAt,   \* scanAt[p]: position in the directory listing of p's scan
  scanLock, \* scanLock[p]: local lock of the loop body
  cleaned   \* cleaned[p]: local cleaned

cleanVars == <<scanAt, scanLock, cleaned>>

\* the command handler of each process
VARIABLES
  currentProfile, \* currentProfile[p]: CommandHandler.currentProfile, or "none"
  command,        \* command[p]: the command p is inside, or "none"
  profileDirs     \* the profile directories that exist

cmdVars == <<currentProfile, command, profileDirs>>

\* load-modify-save cycles of addSnipe, removeSnipe and toggleSnipe
VARIABLES
  profile,  \* profile[p]: the aggregate p's mutation loaded, or NotLoaded
  snipes    \* snipes[v]: the mutations aggregate v contains

editVars == <<profile, snipes>>

\* the profile object whose snipes the engine is given
VARIABLES
  profileSnipes \* profileSnipes[s]: the isActive and status fields of snipe s

flagVars == <<profileSnipes>>
toolVars == <<cleanVars, cmdVars, editVars, flagVars>>

procVars == <<now, alive, pc, diedAt>>
lockVars == <<lockFile, arg, existingLock, acqResult, held, overlapped, rival>>
otherVars == <<engineVars, netVars, ctlVars, toolVars>>
storeVars == <<configFile, tmpFile, backups, bkSeq, nextVer, saveVal, fdOn, saveResult, lastSave, lastRead, lockedAtCall>>

InitProc ==
  /\ now = 0
  /\ alive = [p \in Procs |-> TRUE]
  /\ pc = [p \in Procs |-> "idle"]
  /\ diedAt = [p \in Procs |-> "none"]

InitLock ==
  /\ lockFile = [f \in Profiles |-> NoLock]
  /\ arg = [p \in Procs |-> ProfileOrder[1]]
  /\ existingLock = [p \in Procs |-> NoLock]
  /\ acqResult = [p \in Procs |-> "none"]
  /\ held = [p \in Procs |-> {}]
  /\ overlapped = [p \in Procs |-> {}]
  /\ rival = [p \in Procs |-> "none"]

\* a staleness test that looks at the age of the record only
isLockStaleByAgeOnly(lock) ==
  now - lock.timestamp > STALE_LOCK_TIMEOUT

\* LockManager.isLockStale: too old, or the holder process does not exist
isLockStale(lock) ==
  \/ now - lock.timestamp > STALE_LOCK_TIMEOUT
  \/ ~alive[lock.pid]

\* acquireLock is called: nothing is read yet
AcquireLockBegin(p, f) ==
  /\ alive[p] /\ pc[p] = "idle"
  /\ pc' = [pc EXCEPT ![p] = "acq_read"]
  /\ arg' = [arg EXCEPT ![p] = f]
  /\ acqResult' = [acqResult EXCEPT ![p] = "none"]
  /\ existingLock' = [existingLock EXCEPT ![p] = NoLock]
  /\ LET mid == {q \in Procs \ {p} : pc[q] \in AcqPcs /\ arg[q] = f}
     IN overlapped' = [q \in Procs |->
                         IF q = p THEN mid
                         ELSE IF q \in mid THEN overlapped[q] \cup {p}
                         ELSE overlapped[q] \ {p}]
  /\ rival' = [rival EXCEPT ![p] =
                 IF lockFile[f] # NoLock /\ lockFile[f].pid # p
                    /\ alive[lockFile[f].pid] /\ f \in held[lockFile[f].pid]
                 THEN lockFile[f].pid ELSE "none"]
  /\ UNCHANGED <<now, alive, diedAt, lockFile, held, storeVars>>
  /\ UNCHANGED <<engineVars, netVars, ctlVars, cleanVars, editVars, flagVars>>

\* acquireLock called on its own, outside any command
AcquireLockCall(p, f) == AcquireLockBegin(p, f) /\ UNCHANGED cmdVars

\* const existingLock = await this.readLockFile(lockFilePath)
AcquireLockRead(p) ==
  /\ alive[p] /\ pc[p] = "acq_read"
  /\ existingLock' = [existingLock EXCEPT ![p] = lockFile[arg[p]]]
  /\ pc' = [pc EXCEPT ![p] = IF lockFile[arg[p]] = NoLock THEN "acq_write" ELSE "acq_stale"]
  /\ UNCHANGED <<now, alive, diedAt, lockFile, arg, acqResult, held, overlapped, rival, storeVars, otherVars>>

\* a stale check that unlinks the record it finds before it answers
AcquireLockStaleUnlinks(p) ==
  /\ alive[p] /\ pc[p] = "acq_stale"
  /\ IF isLockStale(existingLock[p])
       THEN /\ pc' = [pc EXCEPT ![p] = "acq_remove"]
            /\ UNCHANGED acqResult
       ELSE /\ pc' = [pc EXCEPT ![p] = "idle"]
            /\ acqResult' = [acqResult EXCEPT ![p] = "false"]
  /\ lockFile' = [lockFile EXCEPT ![arg[p]] = NoLock]
  /\ UNCHANGED <<now, alive, diedAt, arg, existingLock, held, overlapped, rival, storeVars, otherVars>>

\* const isStale = await this.isLockStale(existingLock); if (!isStale) return false
AcquireLockStale(p) ==
  /\ alive[p] /\ pc[p] = "acq_stale"
  /\ IF isLockStale(existingLock[p])
       THEN /\ pc' = [pc EXCEPT ![p] = "acq_remove"]
            /\ UNCHANGED acqResult
       ELSE /\ pc' = [pc EXCEPT ![p] = "idle"]
            /\ acqResult' = [acqResult EXCEPT ![p] = "false"]
  /\ UNCHANGED <<now, alive, diedAt, lockFile, arg, existingLock, held, overlapped, rival, storeVars, otherVars>>

\* await this.removeLock(profilePath)
AcquireLockRemove(p) ==
  /\ alive[p] /\ pc[p] = "acq_remove"
  /\ lockFile' = [lockFile EXCEPT ![arg[p]] = NoLock]
  /\ pc' = [pc EXCEPT ![p] = "acq_write"]
  /\ UNCHANGED <<now, alive, diedAt, arg, existingLock, acqResult, held, overlapped, rival, storeVars, otherVars>>

\* await fs.writeFile(lockFilePath, JSON.stringify(lock)); return true
AcquireLockWrite(p) ==
  /\ alive[p] /\ pc[p] = "acq_write"
  /\ lockFile' = [lockFile EXCEPT ![arg[p]] = [pid |-> p, timestamp |-> now]]
  /\ acqResult' = [acqResult EXCEPT ![p] = "true"]
  /\ held' = [held EXCEPT ![p] = @ \cup {arg[p]}]
  /\ pc' = [pc EXCEPT ![p] = "idle"]
  /\ UNCHANGED <<now, alive, diedAt, arg, existingLock, overlapped, rival, storeVars, otherVars>>

\* fs.unlink(lockFilePath): done, or ENOENT when there is no lock file
Unlink(content) == IF content = NoLock THEN "ENOENT" ELSE "ok"

\* a releaseLock that reports a missing lock file as a failure
releaseLockStrict(outcome) == outcome = "ok"

\* what releaseLock returns: true after the unlink and on ENOENT, false on
\* any other error
releaseLock(outcome) == outcome \in {"ok", "ENOENT"}

\* an isLocked that only looks for the record
isLockedIfPresent(f) == lockFile[f] # NoLock

\* LockManager.isLocked: a lock record is there and is not stale
isLocked(f) ==
  IF lockFile[f] = NoLock THEN FALSE ELSE ~isLockStale(lockFile[f])

\* LockManager.releaseLock: unlink the lock file, whoever wrote it
ReleaseLockCall(p, f) ==
  /\ alive[p] /\ pc[p] = "idle"
  /\ lockFile' = [lockFile EXCEPT ![f] = NoLock]
  /\ held' = [held EXCEPT ![p] = @ \ {f}]
  /\ rival' = [q \in Procs |-> IF rival[q] = p /\ arg[q] = f THEN "none" ELSE rival[q]]
  /\ UNCHANGED <<procVars, arg, existingLock, acqResult, overlapped, storeVars>>
  /\ UNCHANGED <<engineVars, netVars, ctlVars, cleanVars, editVars, flagVars>>

\* releaseLock called on its own, outside any command
ReleaseLock(p, f) == ReleaseLockCall(p, f) /\ UNCHANGED cmdVars

InitClean ==
  /\ scanAt = [p \in Procs |-> 0]
  /\ scanLock = [p \in Procs |-> NoLock]
  /\ cleaned = [p \in Procs |-> 0]

\* no command has run yet: the first profile exists, no process has a
\* current profile
InitCmd ==
  /\ currentProfile = [p \in Procs |-> "none"]
  /\ command = [p \in Procs |-> "none"]
  /\ profileDirs = {ProfileOrder[1]}

\* profile[p] when p has loaded no aggregate it is about to change
NotLoaded == -1

InitEdit ==
  /\ profile = [p \in Procs |-> NotLoaded]
  /\ snipes = (0 :> {})


\* cleanupStaleLocks(profilesDir) is called: cleaned = 0, and the directory
\* is listed
CleanupStaleLocksCall(p) ==
  /\ alive[p] /\ pc[p] = "idle"
  /\ pc' = [pc EXCEPT ![p] = "cl_read"]
  /\ scanAt' = [scanAt EXCEPT ![p] = 1]
  /\ scanLock' = [scanLock EXCEPT ![p] = NoLock]
  /\ cleaned' = [cleaned EXCEPT ![p] = 0]
  /\ UNCHANGED <<now, alive, diedAt, lockVars, storeVars, engineVars, netVars, ctlVars, cmdVars, editVars, flagVars>>

\* the loop goes on to the next directory, or cleanupStaleLocks returns
\* cleaned
ScanNext(p) ==
  IF scanAt[p] < Len(ProfileOrder)
    THEN /\ scanAt' = [scanAt EXCEPT ![p] = @ + 1]
         /\ pc' = [pc EXCEPT ![p] = "cl_read"]
    ELSE /\ UNCHANGED scanAt
         /\ pc' = [pc EXCEPT ![p] = "idle"]

\* const lock = await this.readLockFile(lockFilePath)
CleanupRead(p) ==
  /\ alive[p] /\ pc[p] = "cl_read"
  /\ LET lock == lockFile[ProfileOrder[scanAt[p]]]
     IN /\ scanLock' = [scanLock EXCEPT ![p] = lock]
        /\ IF lock = NoLock
             THEN ScanNext(p)
             ELSE /\ pc' = [pc EXCEPT ![p] = "cl_stale"]
                  /\ UNCHANGED scanAt
  /\ UNCHANGED <<now, alive, diedAt, lockVars, cleaned, storeVars, engineVars, netVars, ctlVars, cmdVars, editVars, flagVars>>

\* if (lock && await this.isLockStale(lock))
CleanupStale(p) ==
  /\ alive[p] /\ pc[p] = "cl_stale"
  /\ IF isLockStale(scanLock[p])
       THEN /\ pc' = [pc EXCEPT ![p] = "cl_unlink"]
            /\ UNCHANGED scanAt
       ELSE ScanNext(p)
  /\ UNCHANGED <<now, alive, diedAt, lockVars, scanLock, cleaned, storeVars, engineVars, netVars, ctlVars, cmdVars, editVars, flagVars>>

\* await fs.unlink(lockFilePath); cleaned++ (an ENOENT is caught by the
\* inner try and leaves cleaned as it is)
CleanupUnlink(p) ==
  /\ alive[p] /\ pc[p] = "cl_unlink"
  /\ LET f == ProfileOrder[scanAt[p]]
     IN /\ lockFile' = [lockFile EXCEPT ![f] = NoLock]
        /\ cleaned' = [cleaned EXCEPT ![p] =
                         IF Unlink(lockFile[f]) = "ok" THEN @ + 1 ELSE @]
  /\ ScanNext(p)
  /\ UNCHANGED <<now, alive, diedAt, arg, existingLock, acqResult, held, overlapped, rival,
                 scanLock, storeVars, engineVars, netVars, ctlVars, cmdVars, editVars, flagVars>>

(***************************************************************************)
(* CommandHandler (src/cli/commands.ts)                                    *)
(***************************************************************************)
\* createProfile(name): ProfileManager.createProfile throws when the profile
\* exists; otherwise the directory and its first config.json are written and
\* the new profile becomes the current one, without acquireLock
CreateProfile(p, f) ==
  /\ alive[p] /\ pc[p] = "idle" /\ command[p] = "none"
  /\ f \notin profileDirs
  /\ profileDirs' = profileDirs \cup {f}
  /\ currentProfile' = [currentProfile EXCEPT ![p] = f]
  /\ UNCHANGED <<procVars, lockVars, storeVars, engineVars, netVars, ctlVars>>
  /\ UNCHANGED <<cleanVars, editVars, flagVars, command>>

\* switchProfile(name): 'not found' when loadProfile returns null;
\* otherwise await this.profileManager.acquireLock(name) is called
SwitchProfileCall(p, f) ==
  /\ command[p] = "none"
  /\ f \in profileDirs
  /\ AcquireLockBegin(p, f)
  /\ command' = [command EXCEPT ![p] = "switchProfile"]
  /\ UNCHANGED <<currentProfile, profileDirs>>

\* switchProfile after acquireLock returned: 'in use by another process'
\* when it returned false, otherwise this.currentProfile = profile
SwitchProfileReturn(p) ==
  /\ alive[p] /\ pc[p] = "idle" /\ command[p] = "switchProfile"
  /\ currentProfile' = [currentProfile EXCEPT ![p] =
                          IF acqResult[p] = "true" THEN arg[p] ELSE @]
  /\ command' = [command EXCEPT ![p] = "none"]
  /\ UNCHANGED <<procVars, lockVars, storeVars, engineVars, netVars, ctlVars>>
  /\ UNCHANGED <<cleanVars, editVars, flagVars, profileDirs>>

\* cleanup(), called on the way out: networkDetector.destroy() on a
\* detector at rest, and releaseLock(currentProfile.name) when there is a
\* current profile
Cleanup(p) ==
  /\ command[p] = "none"
  /\ IF currentProfile[p] = "none"
       THEN /\ alive[p] /\ pc[p] = "idle"
            /\ UNCHANGED <<procVars, lockVars, storeVars>>
            /\ UNCHANGED <<engineVars, netVars, ctlVars, cleanVars, editVars, flagVars>>
       ELSE ReleaseLockCall(p, currentProfile[p])
  /\ command' = [command EXCEPT ![p] = "exited"]
  /\ UNCHANGED <<currentProfile, profileDirs>>

\* the process is killed (crash, SIGKILL): no shutdown handler runs
Kill(p) ==
  /\ alive[p]
  /\ alive' = [alive EXCEPT ![p] = FALSE]
  /\ pc' = [pc EXCEPT ![p] = "dead"]
  /\ diedAt' = [diedAt EXCEPT ![p] = pc[p]]
  /\ fdOn' = [fdOn EXCEPT ![p] = "none"]
  /\ UNCHANGED <<now, lockVars, otherVars>>
  /\ UNCHANGED <<configFile, tmpFile, backups, bkSeq, nextVer, saveVal, saveResult, lastSave, lastRead, lockedAtCall>>

\* process.exit(0) after cleanup()
Exit(p) == command[p] = "exited" /\ Kill(p)

\* time passes
Tick ==
  /\ now < MaxTicks * TickMs
  /\ now' = now + TickMs
  /\ UNCHANGED <<alive, pc, diedAt, lockVars, storeVars, otherVars>>

(***************************************************************************)
(* ProfileManager.saveProfile over FileManager                             *)
(***************************************************************************)
\* number of saveProfile calls the model makes
MaxSaves == 2

\* FileManager.cleanupBackups keeps the 5 most recent backups
KeepBackups == 5

\* complete aggregates: version 0 is the one createProfile saved
Versions == 0..MaxSaves

\* file contents: a complete aggregate, no file, a truncated file, or text
\* that does not parse
Full(v) == [st |-> "full", v |-> v]
Missing == [st |-> "missing", v |-> 0]
Partial == [st |-> "partial", v |-> 0]
Corrupt == [st |-> "corrupt", v |-> 0]

\* positions of a process inside saveProfile
SavePcs == {"sv_backup", "sv_open", "sv_write", "sv_rename", "sv_cleanup"}

InitStore ==
  /\ configFile = Full(0)
  /\ tmpFile = Missing
  /\ backups = <<>>
  /\ bkSeq = 0
  /\ nextVer = 0
  /\ saveVal = [p \in Procs |-> 0]
  /\ fdOn = [p \in Procs |-> "none"]
  /\ saveResult = [p \in Procs |-> "none"]
  /\ lastSave = [prior |-> Full(0), new |-> Full(0), by |-> "none"]
  /\ lastRead = [p \in Procs |-> [val |-> [st |-> "unread", v |-> 0], afterKill |-> FALSE]]
  /\ lockedAtCall = [p \in Procs |-> "none"]

\* FileManager.readJsonFile on a file with the given content: null when the
\* file does not exist, an exception when JSON.parse fails on a truncated or
\* garbled file, the parsed aggregate otherwise
readJsonFile(content) ==
  IF content = Missing THEN [st |-> "null", v |-> 0]
  ELSE IF content \in {Partial, Corrupt} THEN [st |-> "throws", v |-> 0]
  ELSE content

\* what a file holds after v is written at offset 0 over old content: the
\* new text alone, or the new text followed by the tail of a longer old one
Overwrite(old, v) ==
  IF old \in {Partial, Full(v)} THEN {Full(v)} ELSE {Full(v), Corrupt}

\* the slice cleanupBackups would keep if it sorted the oldest first
NewestAscending(bk, n) ==
  {x \in DOMAIN bk : Cardinality({y \in DOMAIN bk : y < x}) < n}

\* the n most recent backups (names are timestamps, sorted newest first)
Newest(bk, n) ==
  {x \in DOMAIN bk : Cardinality({y \in DOMAIN bk : y > x}) < n}

\* the profile directory the store variables model
StoreProfile == ProfileOrder[1]

\* p holds a valid lock on the stored profile: the record names p and is not stale
HoldsValidLock(p) ==
  /\ lockFile[StoreProfile] # NoLock
  /\ lockFile[StoreProfile].pid = p
  /\ ~isLockStale(lockFile[StoreProfile])

\* saveProfile is called with an aggregate that differs from every earlier
\* one (profile.lastUsed = new Date())
SaveProfileBegin(p, limit) ==
  /\ alive[p] /\ pc[p] = "idle"
  /\ nextVer < limit
  /\ nextVer' = nextVer + 1
  /\ saveVal' = [saveVal EXCEPT ![p] = nextVer + 1]
  /\ saveResult' = [saveResult EXCEPT ![p] = "none"]
  /\ lastSave' = [prior |-> configFile, new |-> Full(nextVer + 1), by |-> p]
  /\ lockedAtCall' = [lockedAtCall EXCEPT ![p] = IF HoldsValidLock(p) THEN "yes" ELSE "no"]
  /\ pc' = [pc EXCEPT ![p] = "sv_backup"]
  /\ UNCHANGED <<now, alive, diedAt, lockVars, engineVars, netVars, ctlVars, cleanVars, cmdVars, flagVars>>
  /\ UNCHANGED <<configFile, tmpFile, backups, bkSeq, fdOn, lastRead>>

\* saveProfile called on its own, with an aggregate built elsewhere
SaveProfileCall(p) == SaveProfileBegin(p, MaxSaves) /\ UNCHANGED editVars

\* await FileManager.backupFile(configPath): copy config.json to
\* config.json.backup-<timestamp>; two backups taken in the same millisecond
\* get the same name
BackupFile(p) ==
  /\ alive[p] /\ pc[p] = "sv_backup"
  /\ IF configFile = Missing
       THEN UNCHANGED <<backups, bkSeq>>
       ELSE \E n \in (IF bkSeq = 0 THEN {1} ELSE {bkSeq, bkSeq + 1}) :
              /\ bkSeq' = n
              /\ backups' = (n :> configFile) @@ backups
  /\ pc' = [pc EXCEPT ![p] = "sv_open"]
  /\ UNCHANGED <<now, alive, diedAt, lockVars, otherVars>>
  /\ UNCHANGED <<configFile, tmpFile, nextVer, saveVal, fdOn, saveResult, lastSave, lastRead, lockedAtCall>>

\* writeJsonFile as it would be without the temporary file: config.json
\* itself is opened and truncated
WriteJsonFileOpenInPlace(p) ==
  /\ alive[p] /\ pc[p] = "sv_open"
  /\ configFile' = Partial
  /\ fdOn' = [fdOn EXCEPT ![p] = "config"]
  /\ pc' = [pc EXCEPT ![p] = "sv_write"]
  /\ UNCHANGED <<now, alive, diedAt, lockVars, otherVars>>
  /\ UNCHANGED <<tmpFile, backups, bkSeq, nextVer, saveVal, saveResult, lastSave, lastRead, lockedAtCall>>

\* writeJsonFile, fs.writeFile(tempFile, ...) part 1: the temporary file is
\* opened, created or truncated
WriteJsonFileOpen(p) ==
  /\ alive[p] /\ pc[p] = "sv_open"
  /\ tmpFile' = Partial
  /\ fdOn' = [fdOn EXCEPT ![p] = "tmp"]
  /\ pc' = [pc EXCEPT ![p] = "sv_write"]
  /\ UNCHANGED <<now, alive, diedAt, lockVars, otherVars>>
  /\ UNCHANGED <<configFile, backups, bkSeq, nextVer, saveVal, saveResult, lastSave, lastRead, lockedAtCall>>

\* writeJsonFile, fs.writeFile(tempFile, ...) part 2: the text is written to
\* the file the descriptor refers to (which a rename by another writer may
\* have turned into config.json, or removed from the directory)
WriteJsonFileWrite(p) ==
  /\ alive[p] /\ pc[p] = "sv_write"
  /\ \/ /\ fdOn[p] = "tmp"
        /\ \E c \in Overwrite(tmpFile, saveVal[p]) : tmpFile' = c
        /\ UNCHANGED configFile
     \/ /\ fdOn[p] = "config"
        /\ \E c \in Overwrite(configFile, saveVal[p]) : configFile' = c
        /\ UNCHANGED tmpFile
     \/ /\ fdOn[p] = "unlinked"
        /\ UNCHANGED <<configFile, tmpFile>>
  /\ fdOn' = [fdOn EXCEPT ![p] = "none"]
  /\ pc' = [pc EXCEPT ![p] = "sv_rename"]
  /\ UNCHANGED <<now, alive, diedAt, lockVars, otherVars>>
  /\ UNCHANGED <<backups, bkSeq, nextVer, saveVal, saveResult, lastSave, lastRead, lockedAtCall>>

\* writeJsonFile, fs.rename(tempFile, filePath); when the temporary file is
\* gone the rename fails and saveProfile throws
WriteJsonFileRename(p) ==
  /\ alive[p] /\ pc[p] = "sv_rename"
  /\ IF tmpFile = Missing
       THEN /\ saveResult' = [saveResult EXCEPT ![p] = "throws"]
            /\ pc' = [pc EXCEPT ![p] = "idle"]
            /\ UNCHANGED <<configFile, tmpFile, fdOn>>
       ELSE /\ configFile' = tmpFile
            /\ tmpFile' = Missing
            /\ fdOn' = [q \in Procs |->
                          IF fdOn[q] = "tmp" THEN "config"
                          ELSE IF fdOn[q] = "config" THEN "unlinked"
                          ELSE fdOn[q]]
            /\ pc' = [pc EXCEPT ![p] = "sv_cleanup"]
            /\ UNCHANGED saveResult
  /\ UNCHANGED <<now, alive, diedAt, lockVars, otherVars>>
  /\ UNCHANGED <<backups, bkSeq, nextVer, saveVal, lastSave, lastRead, lockedAtCall>>

\* await FileManager.cleanupBackups(configPath); saveProfile returns
CleanupBackups(p) ==
  /\ alive[p] /\ pc[p] = "sv_cleanup"
  /\ backups' = [n \in Newest(backups, KeepBackups) |-> backups[n]]
  /\ saveResult' = [saveResult EXCEPT ![p] = "ok"]
  /\ pc' = [pc EXCEPT ![p] = "idle"]
  /\ UNCHANGED <<now, alive, diedAt, lockVars, otherVars>>
  /\ UNCHANGED <<configFile, tmpFile, bkSeq, nextVer, saveVal, fdOn, lastSave, lastRead, lockedAtCall>>

\* loadProfile: FileManager.readJsonFile(configPath)
LoadProfile(p) ==
  /\ alive[p] /\ pc[p] = "idle"
  /\ lastRead' = [lastRead EXCEPT ![p] =
                    [val |-> readJsonFile(configFile),
                     afterKill |-> \E q \in Procs : diedAt[q] \in SavePcs]]
  /\ UNCHANGED <<procVars, lockVars, otherVars>>
  /\ UNCHANGED <<configFile, tmpFile, backups, bkSeq, nextVer, saveVal, fdOn, saveResult, lastSave, lockedAtCall>>

\* addSnipe, removeSnipe, toggleSnipe: const profile = await
\* this.loadProfile(profileName); a missing profile makes the call throw
ModifyLoad(p) ==
  /\ alive[p] /\ pc[p] = "idle"
  /\ profile[p] = NotLoaded
  /\ readJsonFile(configFile).st = "full"
  /\ profile' = [profile EXCEPT ![p] = readJsonFile(configFile).v]
  /\ UNCHANGED <<procVars, lockVars, storeVars, engineVars, netVars, ctlVars>>
  /\ UNCHANGED <<cleanVars, cmdVars, flagVars, snipes>>

\* addSnipe, removeSnipe, toggleSnipe: the change is made to the loaded
\* aggregate and await this.saveProfile(profile) is called
ModifySave(p) ==
  /\ profile[p] # NotLoaded
  /\ SaveProfileBegin(p, MaxSaves)
  /\ snipes' = ((nextVer + 1) :> (snipes[profile[p]] \cup {nextVer + 1})) @@ snipes
  /\ profile' = [profile EXCEPT ![p] = NotLoaded]

\* no live process is inside saveProfile
NoSaveInProgress == \A q \in Procs : pc[q] \notin SavePcs

\* saveProfile called by a process that follows the lock discipline: no
\* other writer is at work on the profile
SaveProfileCallExclusive(p) == NoSaveInProgress /\ SaveProfileCall(p)

\* number of saveProfile calls in a history long enough for cleanupBackups
\* to have something to delete
MaxHistorySaves == 7

\* one save after the other, until the history is MaxHistorySaves long
SaveProfileCallHistory(p) ==
  NoSaveInProgress /\ SaveProfileBegin(p, MaxHistorySaves) /\ UNCHANGED editVars

NextHistory ==
  \/ \E p \in Procs : SaveProfileCallHistory(p)
  \/ \E p \in Procs : BackupFile(p)
  \/ \E p \in Procs : WriteJsonFileOpen(p)
  \/ \E p \in Procs : WriteJsonFileWrite(p)
  \/ \E p \in Procs : WriteJsonFileRename(p)
  \/ \E p \in Procs : CleanupBackups(p)

NextLock ==
  \/ \E p \in Procs, f \in Contended : AcquireLockCall(p, f)
  \/ \E p \in Procs : AcquireLockRead(p)
  \/ \E p \in Procs : AcquireLockStale(p)
  \/ \E p \in Procs : AcquireLockRemove(p)
  \/ \E p \in Procs : AcquireLockWrite(p)
  \/ \E p \in Procs, f \in Contended : ReleaseLock(p, f)
  \/ \E p \in Procs : Kill(p)
  \/ Tick

(***************************************************************************)
(* SnipeEngine                                                             *)
(***************************************************************************)
\* largest maxRetries option the model constructs an engine with
MaxRetries == 2

\* ids of the snipes of the profile passed to executeSnipes, in profile order
SnipeOrder == <<"X", "Y">>
Snipes == {SnipeOrder[i] : i \in 1..Len(SnipeOrder)}

\* executeSnipes calls that can be in progress at once
SlotOrder == <<"r1", "r2">>
Slots == {SlotOrder[i] : i \in 1..Len(SlotOrder)}

\* the awaited calls of one attempt, in program order
Steps == <<"wallet", "balance", "pools", "simulate", "swap">>

\* message of the Error a failure at the given place is caught with
ErrorMessage(place) ==
  CASE place = "wallet" -> "Failed to restore FlashNet wallet"
    [] place = "balance" -> "Failed to get wallet balance"
    [] place = "pools" -> "Failed to list pools"
    [] place = "notfound" -> "Pool not found for token"
    [] place = "simulate" -> "Failed to simulate swap"
    [] place = "swap" -> "Failed to execute swap"
    [] OTHER -> "none"

\* waited: the delays slept so far; events: what emitSnipeEvent has emitted
\* since the current attempt began
NoTask == [pc |-> "none", attempts |-> 0, lastError |-> "none", failures |-> 0,
           lastFailAt |-> "none", waited |-> <<>>, events |-> <<>>]

\* constructor; the slots in use decide how many calls may overlap
InitEngineWith(slots, options) ==
  /\ executionOptions \in options
  /\ isExecuting = FALSE
  /\ activeWallets = {}
  /\ runSt = [r \in Slots |-> IF r \in slots THEN "free" ELSE "off"]
  /\ runSnipes = [r \in Slots |-> {}]
  /\ task = [r \in Slots |-> [s \in Snipes |-> NoTask]]
  /\ done = [r \in Slots |-> <<>>]
  /\ results = [r \in Slots |-> <<>>]
  /\ lastCall = [res |-> "none", busy |-> FALSE]

\* initialRetryDelay and maxRetryDelay of the default configuration
initialRetryDelay == 2000
maxRetryDelay == 5000

\* options the constructor can be given
Options == [maxRetries : 1..MaxRetries, executeInParallel : BOOLEAN,
            retryDelay : {initialRetryDelay}, maxRetryDelay : {maxRetryDelay}]

InitEngine == InitEngineWith({"r1"}, Options)

\* new SnipeEngine(baseDir) with the largest retry budget of the model
InitEngineDefault ==
  InitEngineWith(Slots, {[maxRetries |-> MaxRetries, executeInParallel |-> TRUE,
                          retryDelay |-> initialRetryDelay,
                          maxRetryDelay |-> maxRetryDelay]})

InProgress(r) == runSt[r] = "running"

Terminal(t) == t.pc \in {"completed", "failed", "rejected"}

\* position of snipe s in the profile
Index(s) == CHOOSE i \in 1..Len(SnipeOrder) : SnipeOrder[i] = s

\* an awaiting that gives up on the other promises once one snipe has failed
SettledOnFirstFailure(r) ==
  \/ \A s \in runSnipes[r] : Terminal(task[r][s])
  \/ \E s \in runSnipes[r] : task[r][s].pc \in {"rejected", "failed"}

\* Promise.all(promises) settles: every promise fulfilled, or one rejected
Settled(r) ==
  \/ \A s \in runSnipes[r] : Terminal(task[r][s])
  \/ \E s \in runSnipes[r] : task[r][s].pc = "rejected"

\* the slots a new call can be recorded in, and the first of them
Reusable == {r \in Slots : runSt[r] \in {"free", "returned", "threw"}}
FirstFree ==
  SlotOrder[CHOOSE i \in 1..Len(SlotOrder) :
              /\ SlotOrder[i] \in Reusable
              /\ \A j \in 1..(i - 1) : SlotOrder[j] \notin Reusable]

\* executeSingleSnipe up to its first await: attempts = 1, wallet requested
FirstAttempt == [NoTask EXCEPT !.pc = "wallet", !.attempts = 1]
Pending == [NoTask EXCEPT !.pc = "pending"]

\* executeSnipes while this.isExecuting: throws before anything is touched
ExecuteSnipesReject ==
  /\ isExecuting
  /\ lastCall' = [res |-> "throws", busy |-> \E r \in Slots : InProgress(r)]
  /\ UNCHANGED <<executionOptions, isExecuting, activeWallets, runSt, runSnipes, task,
                  done, results>>
  /\ UNCHANGED <<procVars, lockVars, storeVars, netVars, ctlVars, toolVars>>

\* executeSnipes(profile) otherwise: the active snipes are filtered out and
\* their executeSingleSnipe calls are started, all of them in parallel mode,
\* the first of them in sequential mode
ExecuteSnipesStart(active) ==
  /\ ~isExecuting
  /\ Reusable # {}
  /\ LET r == FirstFree
         first(s) == \A u \in active : Index(s) <= Index(u)
     IN /\ runSt' = [runSt EXCEPT ![r] = "running"]
        /\ runSnipes' = [runSnipes EXCEPT ![r] = active]
        /\ task' = [task EXCEPT ![r] = [s \in Snipes |->
                      IF s \notin active THEN NoTask
                      ELSE IF executionOptions.executeInParallel \/ first(s)
                           THEN FirstAttempt ELSE Pending]]
        /\ done' = [done EXCEPT ![r] = <<>>]
        /\ results' = [results EXCEPT ![r] = <<>>]
  /\ isExecuting' = TRUE
  /\ lastCall' = [res |-> "started", busy |-> \E r \in Slots : InProgress(r)]
  /\ UNCHANGED <<executionOptions, activeWallets>>
  /\ UNCHANGED <<procVars, lockVars, storeVars, netVars, ctlVars, toolVars>>

\* a snipe is created active, with status CREATED
InitFlags ==
  profileSnipes = [s \in Snipes |-> [isActive |-> TRUE, status |-> "CREATED"]]

InitTool == InitClean /\ InitCmd /\ InitEdit /\ InitFlags

\* executeSnipes(profile) with the profile object as it is at the call
ExecuteSnipesOfProfile ==
  ExecuteSnipesStart({s \in Snipes : profileSnipes[s].isActive})

\* snipe.isActive = !snipe.isActive on the profile object
ToggleSnipe(s) ==
  /\ profileSnipes' = [profileSnipes EXCEPT ![s].isActive = ~@]
  /\ UNCHANGED <<procVars, lockVars, storeVars, engineVars, netVars, ctlVars>>
  /\ UNCHANGED <<cleanVars, cmdVars, editVars>>

\* snipe.status = 'VALIDATED' once the snipe has its wallet
ValidateSnipe(s) ==
  /\ profileSnipes[s].status = "CREATED"
  /\ profileSnipes' = [profileSnipes EXCEPT ![s].status = "VALIDATED"]
  /\ UNCHANGED <<procVars, lockVars, storeVars, engineVars, netVars, ctlVars>>
  /\ UNCHANGED <<cleanVars, cmdVars, editVars>>

\* Math.min
Min(a, b) == IF a <= b THEN a ELSE b
\* a delay that doubles without the limit of maxRetryDelay
DelayUncapped(attempts) == executionOptions.retryDelay * 2^(attempts - 1)

\* const delay = Math.min(retryDelay * Math.pow(2, attempts - 1), maxRetryDelay)
Delay(attempts) ==
  Min(executionOptions.retryDelay * 2^(attempts - 1), executionOptions.maxRetryDelay)

\* a catch that compares attempts <= maxRetries and so retries once more
CatchOffByOne(r, s, place) ==
  LET t == task[r][s]
      retry == t.attempts <= executionOptions.maxRetries
  IN /\ task' = [task EXCEPT ![r][s] =
          [t EXCEPT !.lastError = ErrorMessage(place),
                    !.failures = t.failures + 1,
                    !.lastFailAt = place,
                    !.waited = IF retry THEN Append(@, Delay(t.attempts)) ELSE @,
                    !.events = Append(@, IF retry THEN "retrying" ELSE "failed"),
                    !.pc = IF retry THEN "sleep" ELSE "failed"]]
     /\ done' = IF retry THEN done ELSE [done EXCEPT ![r] = Append(@, s)]

\* catch (error): lastError is set; unless this was the last attempt the
\* delay is computed, 'retrying' is emitted and sleep(delay) is called;
\* after the last attempt the loop ends, 'failed' is emitted and the failed
\* result is returned
Catch(r, s, place) ==
  LET t == task[r][s]
      retry == t.attempts < executionOptions.maxRetries
  IN /\ task' = [task EXCEPT ![r][s] =
          [t EXCEPT !.lastError = ErrorMessage(place),
                    !.failures = t.failures + 1,
                    !.lastFailAt = place,
                    !.waited = IF retry THEN Append(@, Delay(t.attempts)) ELSE @,
                    !.events = Append(@, IF retry THEN "retrying" ELSE "failed"),
                    !.pc = IF retry THEN "sleep" ELSE "failed"]]
     /\ done' = IF retry THEN done ELSE [done EXCEPT ![r] = Append(@, s)]

\* the awaited call returned: the events up to the next await are emitted,
\* and the promise of the snipe is settled if the function ends here
Advance(r, s, to, emitted) ==
  /\ task' = [task EXCEPT ![r][s].pc = to, ![r][s].events = @ \o emitted]
  /\ done' = IF to \in {"completed", "rejected"}
             THEN [done EXCEPT ![r] = Append(@, s)] ELSE done

\* const wallet = await this.getOrRestoreWallet(snipe)
GetOrRestoreWallet(r, s) ==
  /\ InProgress(r) /\ task[r][s].pc = "wallet"
  /\ \/ /\ s \in activeWallets
        /\ Advance(r, s, "balance", <<>>)
        /\ UNCHANGED activeWallets
     \/ /\ s \notin activeWallets
        /\ Advance(r, s, "balance", <<>>)
        /\ activeWallets' = activeWallets \cup {s}
     \/ /\ s \notin activeWallets
        /\ Catch(r, s, "wallet")
        /\ UNCHANGED activeWallets
  /\ UNCHANGED <<executionOptions, isExecuting, runSt, runSnipes, results, lastCall>>
  /\ UNCHANGED <<procVars, lockVars, storeVars, netVars, ctlVars, toolVars>>

\* a balance query made outside the try block: its failure rejects the
\* snipe's promise instead of becoming a failed attempt
GetBalanceUncaught(r, s) ==
  /\ InProgress(r) /\ task[r][s].pc = "balance"
  /\ \/ Advance(r, s, "pools", <<>>)
     \/ Advance(r, s, "rejected", <<>>)
  /\ UNCHANGED <<executionOptions, isExecuting, activeWallets, runSt, runSnipes, results, lastCall>>
  /\ UNCHANGED <<procVars, lockVars, storeVars, netVars, ctlVars, toolVars>>

\* const balance = await this.walletManager.getBalance(wallet)
GetBalance(r, s) ==
  /\ InProgress(r) /\ task[r][s].pc = "balance"
  /\ \/ Advance(r, s, "pools", <<>>)
     \/ Catch(r, s, "balance")
  /\ UNCHANGED <<executionOptions, isExecuting, activeWallets, runSt, runSnipes, results, lastCall>>
  /\ UNCHANGED <<procVars, lockVars, storeVars, netVars, ctlVars, toolVars>>

\* const poolsResponse = await this.walletManager.listPools(wallet), and the
\* search for the snipe's pool in the answer
ListPools(r, s) ==
  /\ InProgress(r) /\ task[r][s].pc = "pools"
  /\ \/ Advance(r, s, "simulate", <<"pool_found">>)
     \/ Catch(r, s, "pools")
     \/ Catch(r, s, "notfound")
  /\ UNCHANGED <<executionOptions, isExecuting, activeWallets, runSt, runSnipes, results, lastCall>>
  /\ UNCHANGED <<procVars, lockVars, storeVars, netVars, ctlVars, toolVars>>

\* a simulation whose failure is ignored: the swap is submitted all the same
SimulateSwapUnchecked(r, s) ==
  /\ InProgress(r) /\ task[r][s].pc = "simulate"
  /\ \/ Advance(r, s, "swap", <<"swap_simulated">>)
     \/ Advance(r, s, "swap", <<>>)
  /\ UNCHANGED <<executionOptions, isExecuting, activeWallets, runSt, runSnipes, results, lastCall>>
  /\ UNCHANGED <<procVars, lockVars, storeVars, netVars, ctlVars, toolVars>>

\* const simulation = await this.walletManager.simulateSwap(wallet, ...)
SimulateSwap(r, s) ==
  /\ InProgress(r) /\ task[r][s].pc = "simulate"
  /\ \/ Advance(r, s, "swap", <<"swap_simulated">>)
     \/ Catch(r, s, "simulate")
  /\ UNCHANGED <<executionOptions, isExecuting, activeWallets, runSt, runSnipes, results, lastCall>>
  /\ UNCHANGED <<procVars, lockVars, storeVars, netVars, ctlVars, toolVars>>

\* an executeSwap whose successful answer can be followed by the catch block
ExecuteSwapThenCatch(r, s) ==
  /\ InProgress(r) /\ task[r][s].pc = "swap"
  /\ \/ Advance(r, s, "completed", <<"swap_executed", "completed">>)
     \/ /\ task[r][s].attempts < executionOptions.maxRetries
        /\ Advance(r, s, "sleep", <<"swap_executed", "retrying">>)
     \/ Catch(r, s, "swap")
  /\ UNCHANGED <<executionOptions, isExecuting, activeWallets, runSt, runSnipes, results, lastCall>>
  /\ UNCHANGED <<procVars, lockVars, storeVars, netVars, ctlVars, toolVars>>

\* const swapResult = await this.walletManager.executeSwap(wallet, ...); on
\* success the result is returned
ExecuteSwap(r, s) ==
  /\ InProgress(r) /\ task[r][s].pc = "swap"
  /\ \/ Advance(r, s, "completed", <<"swap_executed", "completed">>)
     \/ Catch(r, s, "swap")
  /\ UNCHANGED <<executionOptions, isExecuting, activeWallets, runSt, runSnipes, results, lastCall>>
  /\ UNCHANGED <<procVars, lockVars, storeVars, netVars, ctlVars, toolVars>>

\* await this.sleep(delay) is over: the loop goes round, attempts++
Sleep(r, s) ==
  /\ InProgress(r) /\ task[r][s].pc = "sleep"
  /\ task' = [task EXCEPT ![r][s].pc = "wallet", ![r][s].attempts = @ + 1,
                           ![r][s].events = <<>>]
  /\ UNCHANGED <<executionOptions, isExecuting, activeWallets, runSt, runSnipes, done, results, lastCall>>
  /\ UNCHANGED <<procVars, lockVars, storeVars, netVars, ctlVars, toolVars>>

\* a loop that does not await executeSingleSnipe before going on to the next
\* snipe
ExecuteNextWithoutAwait(r, s) ==
  /\ InProgress(r) /\ task[r][s].pc = "pending"
  /\ task' = [task EXCEPT ![r][s] = FirstAttempt]
  /\ UNCHANGED <<executionOptions, isExecuting, activeWallets, runSt, runSnipes, done, results, lastCall>>
  /\ UNCHANGED <<procVars, lockVars, storeVars, netVars, ctlVars, toolVars>>

\* executeSnipesSequentially: the loop reaches snipe s once the results of
\* all snipes before it are pushed
ExecuteNextSequentially(r, s) ==
  /\ InProgress(r) /\ task[r][s].pc = "pending"
  /\ \A u \in runSnipes[r] : Index(u) < Index(s) => Terminal(task[r][u])
  /\ task' = [task EXCEPT ![r][s] = FirstAttempt]
  /\ UNCHANGED <<executionOptions, isExecuting, activeWallets, runSt, runSnipes, done, results, lastCall>>
  /\ UNCHANGED <<procVars, lockVars, storeVars, netVars, ctlVars, toolVars>>

\* the snipes of the profile without the filter
InputOrderUnfiltered(active) == SnipeOrder

\* profile.snipes.filter(snipe => snipe.isActive)
InputOrder(active) == SelectSeq(SnipeOrder, LAMBDA s : s \in active)

\* the SnipeResult executeSingleSnipe(s) of call r returned
Outcome(r, s) ==
  [snipeId |-> s, success |-> task[r][s].pc = "completed", attempts |-> task[r][s].attempts]

\* a result list made of the results in the order in which they came in
ResultListByCompletion(r) ==
  [i \in 1..Len(done[r]) |-> Outcome(r, done[r][i])]

\* the list executeSnipes returns: Promise.all(promises) gives the results in
\* the order of snipes.map(...), the sequential loop in the order of its
\* results.push(result)
ResultList(r) ==
  IF executionOptions.executeInParallel
  THEN LET order == InputOrder(runSnipes[r])
       IN [i \in 1..Len(order) |-> Outcome(r, order[i])]
  ELSE [i \in 1..Len(done[r]) |-> Outcome(r, done[r][i])]

\* executeSnipes returning without the activeWallets.clear() of the finally
ExecuteSnipesReturnNoClear(r) ==
  /\ InProgress(r) /\ Settled(r)
  /\ isExecuting' = FALSE
  /\ runSt' = [runSt EXCEPT ![r] =
                 IF \E s \in runSnipes[r] : task[r][s].pc = "rejected"
                 THEN "threw" ELSE "returned"]
  /\ results' = [results EXCEPT ![r] =
                   IF \E s \in runSnipes[r] : task[r][s].pc = "rejected"
                   THEN <<>> ELSE ResultList(r)]
  /\ UNCHANGED <<executionOptions, activeWallets, runSnipes, task, done, lastCall>>
  /\ UNCHANGED <<procVars, lockVars, storeVars, netVars, ctlVars, toolVars>>

\* the awaited results are in (or a promise rejected): finally { isExecuting
\* = false; activeWallets.clear() }, and executeSnipes returns or throws
ExecuteSnipesReturn(r) ==
  /\ InProgress(r) /\ Settled(r)
  /\ isExecuting' = FALSE
  /\ activeWallets' = {}
  /\ runSt' = [runSt EXCEPT ![r] =
                 IF \E s \in runSnipes[r] : task[r][s].pc = "rejected"
                 THEN "threw" ELSE "returned"]
  /\ results' = [results EXCEPT ![r] =
                   IF \E s \in runSnipes[r] : task[r][s].pc = "rejected"
                   THEN <<>> ELSE ResultList(r)]
  /\ UNCHANGED <<executionOptions, runSnipes, task, done, lastCall>>
  /\ UNCHANGED <<procVars, lockVars, storeVars, netVars, ctlVars, toolVars>>

\* SnipeEngine.stop()
Stop ==
  /\ isExecuting' = FALSE
  /\ activeWallets' = {}
  /\ UNCHANGED <<executionOptions, runSt, runSnipes, task, done, results, lastCall>>
  /\ UNCHANGED <<procVars, lockVars, storeVars, netVars, ctlVars, toolVars>>

NextEngine ==
  \/ ExecuteSnipesReject
  \/ \E active \in SUBSET Snipes : ExecuteSnipesStart(active)
  \/ \E r \in Slots, s \in Snipes : GetOrRestoreWallet(r, s)
  \/ \E r \in Slots, s \in Snipes : GetBalance(r, s)
  \/ \E r \in Slots, s \in Snipes : ListPools(r, s)
  \/ \E r \in Slots, s \in Snipes : SimulateSwap(r, s)
  \/ \E r \in Slots, s \in Snipes : ExecuteSwap(r, s)
  \/ \E r \in Slots, s \in Snipes : Sleep(r, s)
  \/ \E r \in Slots, s \in Snipes : ExecuteNextSequentially(r, s)
  \/ \E r \in Slots : ExecuteSnipesReturn(r)
  \/ Stop

(***************************************************************************)
(* NetworkDetector (src/core/network-detector.ts)                          *)
(***************************************************************************)
Networks == {"MAINNET", "REGTEST"}

\* largest value of consecutiveFailures followed
MaxFailCount == 2

\* pending timers that may exist beside the one pollTimer refers to
MaxOrphans == 1

\* performHealthCheck calls that may be awaiting their ping at once
CheckOrder == <<"k1", "k2">>
CheckIds == {CheckOrder[i] : i \in 1..Len(CheckOrder)}

NoCheck == [st |-> "idle", previousStatus |-> FALSE, origin |-> "none", probe |-> "none"]

\* no waitForOnline call made yet
NoWaiter == [called |-> FALSE, deadline |-> "none", timer |-> FALSE,
             listener |-> FALSE, resolved |-> FALSE, rejected |-> FALSE]

\* constructor: offline, on the configured default network, not polling
InitNetWith(defaultNetwork) ==
  /\ isPolling = FALSE
  /\ pollTimer = "none"
  /\ orphanTimers = 0
  /\ clientNetwork = defaultNetwork
  /\ currentStatus = [isOnline |-> FALSE, network |-> defaultNetwork, consecutiveFailures |-> 0]
  /\ consecutiveFailures = 0
  /\ checks = [c \in CheckIds |-> NoCheck]
  /\ lastCheck = [stored |-> FALSE, replaced |-> FALSE, transition |-> "none",
                  replacedFailures |-> 0, origin |-> "none", polling |-> FALSE,
                  emitted |-> <<>>]
  /\ transitions = [last |-> "none", before |-> "none"]
  /\ waiter = NoWaiter
  /\ lastOp = "none"

\* DEFAULT_NETWORK may name either network
InitNet == \E n \in Networks : InitNetWith(n)

\* parseNetwork(undefined): REGTEST
InitNetDefault == InitNetWith("REGTEST")

FreeCheck == CheckOrder[CHOOSE i \in 1..Len(CheckOrder) :
                 /\ checks[CheckOrder[i]].st = "idle"
                 /\ \A j \in 1..(i - 1) : checks[CheckOrder[j]].st # "idle"]

\* performHealthCheck up to its await: previousStatus is read from
\* currentStatus and the ping is issued on the client's current network
BeginCheck(origin, net) ==
  [checks EXCEPT ![FreeCheck] =
     [st |-> "inflight", previousStatus |-> currentStatus.isOnline,
      origin |-> origin, probe |-> net]]

CanBegin == \E c \in CheckIds : checks[c].st = "idle"

\* startMonitoring(network): a warning when already polling; otherwise the
\* switch of network, the reset of the counter and the immediate check
StartMonitoringCall(n) ==
  /\ \/ /\ isPolling
        /\ lastOp' = "warned"
        /\ UNCHANGED <<isPolling, clientNetwork, currentStatus, consecutiveFailures, checks>>
     \/ /\ ~isPolling /\ CanBegin
        /\ clientNetwork' = n
        /\ currentStatus' = [currentStatus EXCEPT !.network = n]
        /\ isPolling' = TRUE
        /\ consecutiveFailures' = 0
        /\ checks' = BeginCheck("start", n)
        /\ lastOp' = "ok"
  /\ UNCHANGED <<pollTimer, orphanTimers, lastCheck, transitions>>
  /\ UNCHANGED waiter
  /\ UNCHANGED <<procVars, lockVars, storeVars, engineVars, toolVars>>

\* startMonitoring(network) called from outside the interface
StartMonitoring(n) == StartMonitoringCall(n) /\ UNCHANGED ctlVars

\* stopMonitoring(): nothing when not polling; otherwise the flag is cleared
\* and the timer pollTimer refers to is cancelled
StopMonitoringCall ==
  /\ \/ /\ ~isPolling
        /\ lastOp' = "idle"
        /\ UNCHANGED <<isPolling, pollTimer>>
     \/ /\ isPolling
        /\ isPolling' = FALSE
        /\ pollTimer' = "none"
        /\ lastOp' = "ok"
  /\ UNCHANGED <<orphanTimers, clientNetwork, currentStatus, consecutiveFailures,
                 checks, lastCheck, transitions>>
  /\ UNCHANGED waiter
  /\ UNCHANGED <<procVars, lockVars, storeVars, engineVars, toolVars>>

\* stopMonitoring() called from outside the interface
StopMonitoring == StopMonitoringCall /\ UNCHANGED ctlVars

\* checkNow(): one performHealthCheck outside the schedule
CheckNow ==
  /\ CanBegin
  /\ checks' = BeginCheck("now", clientNetwork)
  /\ lastOp' = "ok"
  /\ UNCHANGED <<isPolling, pollTimer, orphanTimers, clientNetwork, currentStatus,
                 consecutiveFailures, lastCheck, transitions>>
  /\ UNCHANGED waiter
  /\ UNCHANGED <<procVars, lockVars, storeVars, engineVars, ctlVars, toolVars>>

\* switchNetwork(network): stopMonitoring() when polling, the switch, and
\* startMonitoring(network) again, which is not awaited
SwitchNetwork(n) ==
  /\ isPolling => CanBegin
  /\ clientNetwork' = n
  /\ currentStatus' = [currentStatus EXCEPT !.network = n]
  /\ consecutiveFailures' = 0
  /\ IF isPolling
       THEN /\ pollTimer' = "none"
            /\ checks' = BeginCheck("start", n)
       ELSE UNCHANGED <<pollTimer, checks>>
  /\ lastOp' = "ok"
  /\ UNCHANGED <<isPolling, orphanTimers, lastCheck, transitions>>
  /\ UNCHANGED waiter
  /\ UNCHANGED <<procVars, lockVars, storeVars, engineVars, ctlVars, toolVars>>

\* setPollInterval(intervalMs): an error below 1000 ms; otherwise the new
\* interval and, when polling, stopMonitoring() and startMonitoring(network)
SetPollInterval(valid) ==
  /\ \/ /\ ~valid
        /\ lastOp' = "throws"
        /\ UNCHANGED <<pollTimer, clientNetwork, consecutiveFailures, checks>>
     \/ /\ valid /\ ~isPolling
        /\ lastOp' = "ok"
        /\ UNCHANGED <<pollTimer, clientNetwork, consecutiveFailures, checks>>
     \/ /\ valid /\ isPolling /\ CanBegin
        /\ pollTimer' = "none"
        /\ clientNetwork' = currentStatus.network
        /\ consecutiveFailures' = 0
        /\ checks' = BeginCheck("start", currentStatus.network)
        /\ lastOp' = "ok"
  /\ UNCHANGED <<isPolling, orphanTimers, currentStatus, lastCheck, transitions>>
  /\ UNCHANGED waiter
  /\ UNCHANGED <<procVars, lockVars, storeVars, engineVars, ctlVars, toolVars>>

\* a timer callback that runs its check without looking at isPolling
TimerFireUnguarded ==
  /\ \/ /\ pollTimer = "pending"
        /\ pollTimer' = "fired"
        /\ UNCHANGED orphanTimers
     \/ /\ orphanTimers > 0
        /\ orphanTimers' = orphanTimers - 1
        /\ UNCHANGED pollTimer
  /\ CanBegin
  /\ checks' = BeginCheck("timer", clientNetwork)
  /\ lastOp' = "ok"
  /\ UNCHANGED <<isPolling, clientNetwork, currentStatus, consecutiveFailures,
                 lastCheck, transitions>>
  /\ UNCHANGED waiter
  /\ UNCHANGED <<procVars, lockVars, storeVars, engineVars, ctlVars, toolVars>>

\* a timer set by scheduleNextCheck fires: a check when polling
TimerFire ==
  /\ \/ /\ pollTimer = "pending"
        /\ pollTimer' = "fired"
        /\ UNCHANGED orphanTimers
     \/ /\ orphanTimers > 0
        /\ orphanTimers' = orphanTimers - 1
        /\ UNCHANGED pollTimer
  /\ \/ /\ isPolling /\ CanBegin
        /\ checks' = BeginCheck("timer", clientNetwork)
        /\ lastOp' = "ok"
     \/ /\ ~isPolling
        /\ lastOp' = "idle"
        /\ UNCHANGED checks
  /\ UNCHANGED <<isPolling, clientNetwork, currentStatus, consecutiveFailures,
                 lastCheck, transitions>>
  /\ UNCHANGED waiter
  /\ UNCHANGED <<procVars, lockVars, storeVars, engineVars, ctlVars, toolVars>>

\* emitStatusEvents: the transition event chosen from previousStatus and the
\* status just stored
TransitionEvent(previousStatus, isOnline) ==
  IF previousStatus # isOnline
    THEN (IF isOnline THEN "online" ELSE "offline")
    ELSE "none"

\* emitStatusEvents: 'status:update' always, then on a change of the online
\* value the event of the network and, on MAINNET, the event of the mainnet
StatusEvents(previousStatus, isOnline, network) ==
  <<"status:update">> \o
    (IF previousStatus # isOnline
       THEN IF isOnline
              THEN <<"network:online">> \o
                     (IF network = "MAINNET" THEN <<"mainnet:online">> ELSE <<>>)
              ELSE <<"network:offline">> \o
                     (IF network = "MAINNET" THEN <<"mainnet:offline">> ELSE <<>>)
       ELSE <<>>)

\* the listener enterMonitoringMode registers for 'mainnet:online': it prints
\* the banner and leaves the engine alone
OnMainnetOnline == UNCHANGED engineVars

\* the listeners of the events a check emits are run
RunListeners(events) ==
  IF mainnetOnlineListener /\ \E i \in 1..Len(events) : events[i] = "mainnet:online"
    THEN OnMainnetOnline
    ELSE UNCHANGED engineVars

\* a counter that an online answer does not reset
FailuresKeptOnSuccess(isOnline) ==
  IF isOnline THEN consecutiveFailures ELSE consecutiveFailures + 1

\* consecutiveFailures as the check stores it: 0 after an online answer, one
\* more than the counter otherwise
Failures(isOnline) ==
  IF isOnline THEN 0 ELSE consecutiveFailures + 1

\* a completed check that reschedules whatever started it
SchedulesAnyCheck(k) == isPolling

\* whether the completed check k goes on to scheduleNextCheck and sets a
\* timer: checks of startMonitoring and of the timer do, while polling
Schedules(k) == k.origin \in {"start", "timer"} /\ isPolling

\* a check whose failed or timed-out ping is stored but then thrown on to the
\* caller, so that nothing is scheduled after it
CompleteCheckThrows(c, outcome) ==
  LET k == checks[c]
      isOnline == outcome = "ok"
      failures == Failures(isOnline)
      event == TransitionEvent(k.previousStatus, isOnline)
      schedules == Schedules(k) /\ outcome # "error"
  IN /\ k.st = "inflight"
     /\ ~isOnline => consecutiveFailures < MaxFailCount
     /\ schedules /\ pollTimer = "pending" => orphanTimers < MaxOrphans
     /\ currentStatus' = [isOnline |-> isOnline, network |-> currentStatus.network,
                          consecutiveFailures |-> failures]
     /\ consecutiveFailures' = failures
     /\ lastCheck' = [stored |-> isOnline, replaced |-> currentStatus.isOnline,
                      transition |-> event,
                      replacedFailures |-> currentStatus.consecutiveFailures,
                      origin |-> k.origin, polling |-> isPolling,
                      emitted |-> StatusEvents(k.previousStatus, isOnline,
                                               currentStatus.network)]
     /\ transitions' = IF event = "none" THEN transitions
                       ELSE [last |-> event, before |-> transitions.last]
     /\ IF schedules
          THEN /\ pollTimer' = "pending"
               /\ orphanTimers' = IF pollTimer = "pending"
                                    THEN orphanTimers + 1 ELSE orphanTimers
          ELSE UNCHANGED <<pollTimer, orphanTimers>>
     /\ checks' = [checks EXCEPT ![c] = NoCheck]
     /\ waiter' = IF event = "online" /\ waiter.listener
                    THEN [waiter EXCEPT !.listener = FALSE, !.timer = FALSE,
                                        !.resolved = TRUE]
                    ELSE waiter
     /\ lastOp' = IF outcome = "error" THEN "throws" ELSE "ok"
     /\ RunListeners(StatusEvents(k.previousStatus, isOnline, currentStatus.network))
     /\ UNCHANGED <<isPolling, clientNetwork>>
     /\ UNCHANGED <<procVars, lockVars, storeVars, ctlVars, toolVars>>

\* the ping of check c is answered ("ok", "unhealthy") or fails or times out
\* ("error"): currentStatus is replaced, the events are emitted, and a check
\* of the schedule calls scheduleNextCheck
CompleteCheck(c, outcome) ==
  LET k == checks[c]
      isOnline == outcome = "ok"
      failures == Failures(isOnline)
      event == TransitionEvent(k.previousStatus, isOnline)
      schedules == Schedules(k)
  IN /\ k.st = "inflight"
     /\ ~isOnline => consecutiveFailures < MaxFailCount
     /\ schedules /\ pollTimer = "pending" => orphanTimers < MaxOrphans
     /\ currentStatus' = [isOnline |-> isOnline, network |-> currentStatus.network,
                          consecutiveFailures |-> failures]
     /\ consecutiveFailures' = failures
     /\ lastCheck' = [stored |-> isOnline, replaced |-> currentStatus.isOnline,
                      transition |-> event,
                      replacedFailures |-> currentStatus.consecutiveFailures,
                      origin |-> k.origin, polling |-> isPolling,
                      emitted |-> StatusEvents(k.previousStatus, isOnline,
                                               currentStatus.network)]
     /\ transitions' = IF event = "none" THEN transitions
                       ELSE [last |-> event, before |-> transitions.last]
     /\ IF schedules
          THEN /\ pollTimer' = "pending"
               /\ orphanTimers' = IF pollTimer = "pending"
                                    THEN orphanTimers + 1 ELSE orphanTimers
          ELSE UNCHANGED <<pollTimer, orphanTimers>>
     /\ checks' = [checks EXCEPT ![c] = NoCheck]
     /\ waiter' = IF event = "online" /\ waiter.listener
                    THEN [waiter EXCEPT !.listener = FALSE, !.timer = FALSE,
                                        !.resolved = TRUE]
                    ELSE waiter
     /\ lastOp' = "ok"
     /\ RunListeners(StatusEvents(k.previousStatus, isOnline, currentStatus.network))
     /\ UNCHANGED <<isPolling, clientNetwork>>
     /\ UNCHANGED <<procVars, lockVars, storeVars, ctlVars, toolVars>>

\* waitForOnline(timeoutMs): resolved at once when the status is online;
\* otherwise a timer when timeoutMs is truthy, and a network:online listener
WaitForOnline(deadline) ==
  /\ ~waiter.listener /\ ~waiter.timer
  /\ waiter' = IF currentStatus.isOnline
                 THEN [called |-> TRUE, deadline |-> deadline, timer |-> FALSE,
                       listener |-> FALSE, resolved |-> TRUE, rejected |-> FALSE]
                 ELSE [called |-> TRUE, deadline |-> deadline,
                       timer |-> (deadline = "positive"),
                       listener |-> TRUE, resolved |-> FALSE, rejected |-> FALSE]
  /\ lastOp' = "ok"
  /\ UNCHANGED <<isPolling, pollTimer, orphanTimers, clientNetwork, currentStatus,
                 consecutiveFailures, checks, lastCheck, transitions>>
  /\ UNCHANGED <<procVars, lockVars, storeVars, engineVars, ctlVars, toolVars>>

\* the timer of waitForOnline fires: the listener is removed and the promise
\* rejected
WaiterTimeout ==
  /\ waiter.timer
  /\ waiter' = [waiter EXCEPT !.timer = FALSE, !.listener = FALSE, !.rejected = TRUE]
  /\ lastOp' = "throws"
  /\ UNCHANGED <<isPolling, pollTimer, orphanTimers, clientNetwork, currentStatus,
                 consecutiveFailures, checks, lastCheck, transitions>>
  /\ UNCHANGED <<procVars, lockVars, storeVars, engineVars, ctlVars, toolVars>>

(***************************************************************************)
(* Command-line interface (src/cli/interface.ts, src/cli/commands.ts)      *)
(***************************************************************************)
\* the interface shows its menu and no listener is registered
InitCtl ==
  /\ uiMode = "menu"
  /\ mainnetOnlineListener = FALSE

\* handleStartMonitoring up to its await: CommandHandler.startMonitoring, on a
\* profile with active snipes, calls networkDetector.startMonitoring('MAINNET')
HandleStartMonitoring ==
  /\ uiMode = "menu"
  /\ StartMonitoringCall("MAINNET")
  /\ uiMode' = "starting"
  /\ UNCHANGED mainnetOnlineListener

\* startMonitoring has returned (its immediate check is over): the result is
\* shown and enterMonitoringMode registers its listener and prompts
EnterMonitoringMode ==
  /\ uiMode = "starting"
  /\ \A c \in CheckIds : ~(checks[c].st = "inflight" /\ checks[c].origin = "start")
  /\ uiMode' = "monitoring"
  /\ mainnetOnlineListener' = TRUE
  /\ UNCHANGED <<procVars, lockVars, storeVars, engineVars, netVars, toolVars>>

\* the user answers 'q' to the prompt of enterMonitoringMode:
\* commandHandler.stopMonitoring(), and the menu is shown again
QuitMonitoring ==
  /\ uiMode = "monitoring"
  /\ StopMonitoringCall
  /\ uiMode' = "menu"
  /\ UNCHANGED mainnetOnlineListener

NextNet ==
  \/ \E n \in Networks : StartMonitoring(n)
  \/ StopMonitoring
  \/ CheckNow
  \/ \E n \in Networks : SwitchNetwork(n)
  \/ \E valid \in BOOLEAN : SetPollInterval(valid)
  \/ TimerFire
  \/ \E c \in CheckIds, outcome \in {"ok", "unhealthy", "error"} : CompleteCheck(c, outcome)

\* saves of processes that follow the lock discipline (one writer at a
\* time), any of which may be killed at any step
NextCrash ==
  \/ \E p \in Procs : SaveProfileCallExclusive(p)
  \/ \E p \in Procs : BackupFile(p)
  \/ \E p \in Procs : WriteJsonFileOpen(p)
  \/ \E p \in Procs : WriteJsonFileWrite(p)
  \/ \E p \in Procs : WriteJsonFileRename(p)
  \/ \E p \in Procs : CleanupBackups(p)
  \/ \E p \in Procs : LoadProfile(p)
  \/ \E p \in Procs : Kill(p)

\* locking and saving by processes that call them in any order
NextStore ==
  \/ \E p \in Procs, f \in Contended : AcquireLockCall(p, f)
  \/ \E p \in Procs : AcquireLockRead(p)
  \/ \E p \in Procs : AcquireLockStale(p)
  \/ \E p \in Procs : AcquireLockRemove(p)
  \/ \E p \in Procs : AcquireLockWrite(p)
  \/ \E p \in Procs, f \in Contended : ReleaseLock(p, f)
  \/ \E p \in Procs : SaveProfileCall(p)
  \/ \E p \in Procs : BackupFile(p)
  \/ \E p \in Procs : WriteJsonFileOpen(p)
  \/ \E p \in Procs : WriteJsonFileWrite(p)
  \/ \E p \in Procs : WriteJsonFileRename(p)
  \/ \E p \in Procs : CleanupBackups(p)
  \/ \E p \in Procs : Kill(p)

vars == <<procVars, lockVars, storeVars, otherVars>>

\* the processes, locks and store, beside an engine and a detector at rest
InitAll == InitProc /\ InitLock /\ InitStore /\ InitEngineDefault /\ InitNetDefault /\ InitCtl /\ InitTool

\* an engine built with any options, beside processes at rest
InitEngineAll == InitProc /\ InitLock /\ InitStore /\ InitEngine /\ InitNetDefault /\ InitCtl /\ InitTool

SpecLock == InitAll /\ [][NextLock]_vars

SpecCrash == InitAll /\ [][NextCrash]_vars

SpecStore == InitAll /\ [][NextStore]_vars

SpecEngine == InitEngineAll /\ [][NextEngine]_vars

\* a detector built on either default network, beside processes at rest
InitNetAll == InitProc /\ InitLock /\ InitStore /\ InitEngineDefault /\ InitNet /\ InitCtl /\ InitTool

SpecNet == InitNetAll /\ [][NextNet]_vars

\* a caller of waitForOnline beside a detector that is started, stopped and
\* polled by its timer
NextWait ==
  \/ \E n \in Networks : StartMonitoring(n)
  \/ StopMonitoring
  \/ TimerFire
  \/ \E c \in CheckIds, outcome \in {"ok", "unhealthy", "error"} : CompleteCheck(c, outcome)
  \/ \E deadline \in {"none", "zero", "positive"} : WaitForOnline(deadline)
  \/ WaiterTimeout

SpecWait == InitNetAll /\ [][NextWait]_vars

\* an engine run in parallel mode on a profile whose only active snipe is X,
\* on which a second call may start while the first is still in progress
InitEngineOverlap ==
  /\ InitProc /\ InitLock /\ InitStore /\ InitNetDefault /\ InitCtl /\ InitTool
  /\ InitEngineWith(Slots, [maxRetries : 1..MaxRetries, executeInParallel : {TRUE},
                            retryDelay : {initialRetryDelay},
                            maxRetryDelay : {maxRetryDelay}])

NextEngineOverlap ==
  \/ ExecuteSnipesReject
  \/ ExecuteSnipesStart({"X"})
  \/ \E r \in Slots : GetOrRestoreWallet(r, "X")
  \/ \E r \in Slots : GetBalance(r, "X")
  \/ \E r \in Slots : ListPools(r, "X")
  \/ \E r \in Slots : SimulateSwap(r, "X")
  \/ \E r \in Slots : ExecuteSwap(r, "X")
  \/ \E r \in Slots : Sleep(r, "X")
  \/ \E r \in Slots : ExecuteSnipesReturn(r)
  \/ Stop

SpecEngineOverlap == InitEngineOverlap /\ [][NextEngineOverlap]_vars

\* the largest retry budget of the engines whose delays are followed
MaxBackoffRetries == 4

\* an engine built with any retry budget and with an initial delay either
\* below maxRetryDelay or equal to it, run on a profile whose only active
\* snipe is X
InitBackoff ==
  /\ InitProc /\ InitLock /\ InitStore /\ InitNetDefault /\ InitCtl /\ InitTool
  /\ InitEngineWith({"r1"}, [maxRetries : 1..MaxBackoffRetries,
                             executeInParallel : {TRUE},
                             retryDelay : {initialRetryDelay, maxRetryDelay},
                             maxRetryDelay : {maxRetryDelay}])

SpecBackoff == InitBackoff /\ [][NextEngineOverlap]_vars

\* the process that runs cleanupStaleLocks
Scanner == "p1"

\* the scanner scanning the profile directories for stale locks while the
\* other processes acquire locks and are killed, and time passes
NextCleanup ==
  \/ CleanupStaleLocksCall(Scanner)
  \/ CleanupRead(Scanner)
  \/ CleanupStale(Scanner)
  \/ CleanupUnlink(Scanner)
  \/ \E p \in Procs \ {Scanner}, f \in Profiles : AcquireLockCall(p, f)
  \/ \E p \in Procs \ {Scanner} : AcquireLockRead(p)
  \/ \E p \in Procs \ {Scanner} : AcquireLockStale(p)
  \/ \E p \in Procs \ {Scanner} : AcquireLockRemove(p)
  \/ \E p \in Procs \ {Scanner} : AcquireLockWrite(p)
  \/ \E p \in Procs \ {Scanner} : Kill(p)
  \/ Tick

SpecCleanup == InitAll /\ [][NextCleanup]_vars

\* the engine beside a user who edits the flags of the profile's snipes
NextActive ==
  \/ ExecuteSnipesReject
  \/ ExecuteSnipesOfProfile
  \/ \E s \in Snipes : ToggleSnipe(s)
  \/ \E s \in Snipes : ValidateSnipe(s)
  \/ \E r \in Slots, s \in Snipes : GetOrRestoreWallet(r, s)
  \/ \E r \in Slots, s \in Snipes : GetBalance(r, s)
  \/ \E r \in Slots, s \in Snipes : ListPools(r, s)
  \/ \E r \in Slots, s \in Snipes : SimulateSwap(r, s)
  \/ \E r \in Slots, s \in Snipes : ExecuteSwap(r, s)
  \/ \E r \in Slots, s \in Snipes : Sleep(r, s)
  \/ \E r \in Slots, s \in Snipes : ExecuteNextSequentially(r, s)
  \/ \E r \in Slots : ExecuteSnipesReturn(r)

SpecActive == InitEngineAll /\ [][NextActive]_vars

\* processes that change the snipes of the profile, each by loading the
\* aggregate, changing it and saving it
NextModify ==
  \/ \E p \in Procs : ModifyLoad(p)
  \/ \E p \in Procs : ModifySave(p)
  \/ \E p \in Procs : BackupFile(p)
  \/ \E p \in Procs : WriteJsonFileOpen(p)
  \/ \E p \in Procs : WriteJsonFileWrite(p)
  \/ \E p \in Procs : WriteJsonFileRename(p)
  \/ \E p \in Procs : CleanupBackups(p)

SpecModify == InitAll /\ [][NextModify]_vars

\* processes whose users create profiles, switch between them and quit
NextCommands ==
  \/ \E p \in Procs, f \in Profiles : CreateProfile(p, f)
  \/ \E p \in Procs, f \in Profiles : SwitchProfileCall(p, f)
  \/ \E p \in Procs : AcquireLockRead(p)
  \/ \E p \in Procs : AcquireLockStale(p)
  \/ \E p \in Procs : AcquireLockRemove(p)
  \/ \E p \in Procs : AcquireLockWrite(p)
  \/ \E p \in Procs : SwitchProfileReturn(p)
  \/ \E p \in Procs : Cleanup(p)
  \/ \E p \in Procs : Exit(p)
  \/ Tick

SpecCommands == InitAll /\ [][NextCommands]_vars

\* a long run of saves by processes that take turns
SpecHistory == InitAll /\ [][NextHistory]_vars

\* the interface entering and leaving monitoring mode, with the detector
\* polling in between
NextMonitor ==
  \/ HandleStartMonitoring
  \/ EnterMonitoringMode
  \/ QuitMonitoring
  \/ TimerFire
  \/ \E c \in CheckIds, outcome \in {"ok", "unhealthy", "error"} : CompleteCheck(c, outcome)

\* the event loop runs what is ready: a timer that is due fires, an answered
\* ping is handled, a resolved await is resumed; the user is not obliged to
\* start or quit
SpecMonitor ==
  /\ InitAll /\ [][NextMonitor]_vars
  /\ WF_vars(TimerFire)
  /\ WF_vars(\E c \in CheckIds, outcome \in {"ok", "unhealthy", "error"} : CompleteCheck(c, outcome))
  /\ WF_vars(EnterMonitoringMode)

(***************************************************************************)
(* Properties of the lock manager and of the save path                     *)
(***************************************************************************)
\* C1: two acquireLock calls on the same profile made by different processes
\* and overlapping in time never both return true.
C1_AcquireExclusive ==
  \A p \in Procs : \A q \in overlapped[p] :
    ~(arg[p] = arg[q] /\ acqResult[p] = "true" /\ acqResult[q] = "true")

\* C2: an acquireLock call that begins while a live process holds the lock
\* (its valid record is in place) does not return true as long as that
\* process is alive and has not released the lock, however much time passes.
C2_LiveHolderExcludes ==
  \A q \in Procs :
    (acqResult[q] = "true" /\ rival[q] # "none")
      => ~(alive[rival[q]] /\ arg[q] \in held[rival[q]])

\* C3: a saveProfile call made by a process that holds no valid lock on the
\* profile does not succeed: it neither returns normally nor replaces
\* config.json.
C3_SaveRequiresLock ==
  \A p \in Procs :
    lockedAtCall[p] = "no"
      => /\ saveResult[p] # "ok"
         /\ (lastSave.by = p => configFile # lastSave.new)

\* C4: whatever step of writeJsonFile a saving process is killed at, a read
\* of config.json returns the complete prior aggregate or the complete new
\* one, never a partial one.
C4_SaveAtomicUnderCrash ==
  /\ readJsonFile(configFile) \in {lastSave.prior, lastSave.new}
  /\ readJsonFile(configFile).st = "full"
  /\ \A p \in Procs : lastRead[p].val.st \in {"unread", "full"}

\* a writer was killed between truncating and filling the temporary file,
\* and another process then read the prior aggregate back
C4_Witness ==
  \E p \in Procs, q \in Procs :
    /\ diedAt[p] = "sv_write" /\ lastSave.by = p
    /\ tmpFile = Partial
    /\ alive[q] /\ lastRead[q].afterKill /\ lastRead[q].val = lastSave.prior
    /\ lastSave.prior # Full(0)

(***************************************************************************)
(* Properties of the snipe engine                                          *)
(***************************************************************************)
\* C5: in parallel mode executeSnipes returns one outcome per active snipe;
\* a snipe that failed on every attempt has a failed outcome with attempts =
\* maxRetries, and a snipe none of whose executor calls failed has a
\* successful outcome, whatever happened to the others.
C5_ParallelIsolation ==
  \A r \in Slots :
    (executionOptions.executeInParallel /\ runSt[r] \in {"returned", "threw"}) =>
      /\ runSt[r] = "returned"
      /\ \A s \in runSnipes[r] :
           LET t == task[r][s]
           IN /\ t.pc \in {"completed", "failed"}
              /\ (t.failures = 0 => t.pc = "completed")
              /\ (t.failures = t.attempts =>
                    t.pc = "failed" /\ t.attempts = executionOptions.maxRetries)

\* X was exhausted after more than one attempt and Y succeeded at once
C5_Witness ==
  \E r \in Slots :
    /\ executionOptions.executeInParallel /\ runSt[r] = "returned"
    /\ executionOptions.maxRetries > 1
    /\ task[r]["X"].pc = "failed" /\ task[r]["X"].attempts = executionOptions.maxRetries
    /\ task[r]["Y"].pc = "completed" /\ task[r]["Y"].failures = 0

\* C6: no failure of an executor step escapes executeSnipes: the call never
\* throws once started, and a snipe whose attempts failed is reported by a
\* failed outcome that carries the message of its last error.
C6_NoFailureEscapes ==
  \A r \in Slots :
    /\ runSt[r] # "threw"
    /\ \A s \in Snipes : task[r][s].pc # "rejected"
    /\ runSt[r] = "returned" =>
         \A s \in runSnipes[r] :
           LET t == task[r][s]
           IN /\ t.pc \in {"completed", "failed"}
              /\ t.pc = "failed" =>
                   (t.lastError # "none" /\ t.lastError = ErrorMessage(t.lastFailAt))

\* one snipe failed at the wallet restore, the other at the submit
C6_Witness ==
  \E r \in Slots :
    /\ runSt[r] = "returned"
    /\ task[r]["X"].pc = "failed" /\ task[r]["X"].lastFailAt = "wallet"
    /\ task[r]["Y"].pc = "failed" /\ task[r]["Y"].lastFailAt = "swap"

\* C7: a snipe whose every attempt fails makes exactly maxRetries attempts
\* and ends failed with attempts = maxRetries and the message of the last
\* failure; no snipe ever makes attempt maxRetries + 1.
C7_Exhaustion ==
  \A r \in Slots : \A s \in Snipes :
    LET t == task[r][s]
        R == executionOptions.maxRetries
    IN /\ t.attempts <= R
       /\ t.failures = R => t.pc = "failed"
       /\ t.pc = "failed" =>
            (t.attempts = R /\ t.failures = R /\ t.lastError = ErrorMessage(t.lastFailAt))
       /\ t.pc = "sleep" => t.attempts < R

\* a snipe was exhausted with the largest retry budget, its last failure
\* being that of the simulation
C7_Witness ==
  \E r \in Slots : \E s \in Snipes :
    /\ executionOptions.maxRetries = MaxRetries
    /\ task[r][s].pc = "failed" /\ task[r][s].attempts = MaxRetries
    /\ task[r][s].lastFailAt = "simulate"

\* C8: an executeSnipes call made while an earlier call has not completed
\* throws the already-in-progress error.
C8_RejectsWhileRunning ==
  lastCall.busy => lastCall.res = "throws"

\* C9: the step by which a started executeSnipes call completes leaves the
\* wallet cache empty and isExecuting false.
C9_CleanupOnCompletion ==
  [][\A r \in Slots :
       (runSt[r] = "running" /\ runSt'[r] \in {"returned", "threw"})
         => (activeWallets' = {} /\ ~isExecuting')]_vars

\* a call has returned after restoring a wallet, and the cache is empty
C9_Witness ==
  \E r \in Slots : \E s \in runSnipes[r] :
    /\ runSt[r] = "returned" /\ task[r][s].pc = "completed"
    /\ activeWallets = {} /\ ~isExecuting
    /\ \A q \in Slots : ~InProgress(q)
(***************************************************************************)
(* Properties of the network detector                                      *)
(***************************************************************************)
\* C10: a check emits a transition event exactly when the online value it
\* stores differs from the online value of the status it replaces, so two
\* consecutive transition events are never both online or both offline.
C10_TransitionIffChanged ==
  /\ (lastCheck.transition # "none") <=> (lastCheck.stored # lastCheck.replaced)
  /\ transitions.last # "none" => transitions.last # transitions.before

\* a step by which the check in slot c completes
Completes(c) == checks[c].st = "inflight" /\ checks'[c].st = "idle"

C12_StartWhileActiveFails ==
  [][\A n \in Networks :
       (isPolling /\ StartMonitoring(n)) =>
         /\ lastOp' = "throws"
         /\ checks' = checks
         /\ pollTimer' = pollTimer /\ orphanTimers' = orphanTimers]_vars

\* checks begun by startMonitoring or by the timer that await their ping
ScheduledInFlight ==
  {c \in CheckIds : checks[c].st = "inflight" /\ checks[c].origin \in {"start", "timer"}}

\* timers set by scheduleNextCheck that have neither fired nor been cancelled
PendingTimers == (IF pollTimer = "pending" THEN 1 ELSE 0) + orphanTimers

\* C13: at most one check of the schedule is in flight and at most one poll
\* timer is pending at any time.
C13_ScheduledChecksNeverOverlap ==
  /\ Cardinality(ScheduledInFlight) <= 1
  /\ PendingTimers <= 1

\* a step by which a check begins in slot c
Begins(c) == checks[c].st = "idle" /\ checks'[c].st = "inflight"

\* C14: stopMonitoring changes nothing when not polling; while monitoring is
\* stopped no check of the schedule begins and no timer is set, and only
\* startMonitoring ends that; a check that completes while monitoring is
\* stopped still replaces currentStatus with its result.
C14_StopCooperative ==
  [][/\ (~isPolling /\ StopMonitoring) =>
          UNCHANGED <<isPolling, pollTimer, orphanTimers, clientNetwork, currentStatus,
                      consecutiveFailures, checks, lastCheck, transitions>>
     /\ (isPolling /\ StopMonitoring) => (~isPolling' /\ pollTimer' = "none")
     /\ (~isPolling /\ isPolling') => \E n \in Networks : StartMonitoring(n)
     /\ (~isPolling /\ ~isPolling') =>
          /\ \A c \in CheckIds : Begins(c) => checks'[c].origin = "now"
          /\ PendingTimers' <= PendingTimers
          /\ pollTimer' # "pending"
     /\ \A c \in CheckIds :
          (~isPolling /\ Completes(c)) =>
            \E outcome \in {"ok", "unhealthy", "error"} :
              /\ CompleteCheck(c, outcome)
              /\ currentStatus'.isOnline = (outcome = "ok")]_vars

\* a check begun by startMonitoring completed after stopMonitoring: its
\* online result is the current status and no timer is pending
C14_Witness ==
  /\ ~isPolling /\ PendingTimers = 0
  /\ lastCheck.origin = "start" /\ ~lastCheck.polling
  /\ lastCheck.stored /\ currentStatus.isOnline
  /\ \A c \in CheckIds : checks[c].st = "idle"

\* C15: checkNow begins exactly one check, and neither that step nor the
\* completion of that check changes isPolling or any timer; the status it
\* returns is the one the check stored.
C15_CheckNowLeavesSchedule ==
  [][/\ CheckNow =>
          /\ Cardinality({c \in CheckIds : Begins(c)}) = 1
          /\ \A c \in CheckIds : Begins(c) => checks'[c].origin = "now"
          /\ UNCHANGED <<isPolling, pollTimer, orphanTimers>>
     /\ \A c \in CheckIds :
          (Completes(c) /\ checks[c].origin = "now") =>
            /\ UNCHANGED <<isPolling, pollTimer, orphanTimers>>
            /\ currentStatus'.isOnline = lastCheck'.stored
            /\ lastOp' = "ok"]_vars

\* a checkNow check completed while monitoring was running: the one timer of
\* the schedule is still pending
C15_Witness ==
  /\ lastCheck.origin = "now" /\ lastCheck.polling
  /\ isPolling /\ pollTimer = "pending" /\ orphanTimers = 0
  /\ lastCheck.stored /\ currentStatus.isOnline
  /\ \A c \in CheckIds : checks[c].st = "idle"

\* C16: switchNetwork(n) leaves consecutiveFailures 0, both in the status
\* getStatus() reports and in the counter the next failed check increments,
\* leaves the status network n, and leaves monitoring running exactly if it
\* was running before.
C16_SwitchNetworkResets ==
  [][\A n \in Networks :
       SwitchNetwork(n) =>
         /\ currentStatus'.consecutiveFailures = 0
         /\ consecutiveFailures' = 0
         /\ currentStatus'.network = n
         /\ isPolling' = isPolling]_vars

\* C17: waitForOnline resolves at once when the status is online; otherwise
\* it stays pending with its listener registered, and with a timer whenever a
\* timeout was given, until the next network:online event resolves it or the
\* timer rejects it; it is never both resolved and rejected, and once settled
\* neither its listener nor its timer remains.
C17_WaitForOnline ==
  [][LET w == waiter'
         pending == w.called /\ ~w.resolved /\ ~w.rejected
     IN /\ ~(w.resolved /\ w.rejected)
        /\ (w.resolved \/ w.rejected) => (~w.listener /\ ~w.timer)
        /\ pending => (w.listener /\ (w.deadline # "none" => w.timer))
        /\ \A d \in {"none", "zero", "positive"} :
             (WaitForOnline(d) /\ currentStatus.isOnline) => w.resolved
        /\ (waiter.listener /\ lastCheck'.transition = "online"
              /\ \E c \in CheckIds : Completes(c)) => w.resolved
        /\ WaiterTimeout => w.rejected]_vars

\* C18: a check whose ping fails, times out or is answered unhealthy never
\* throws: it stores online = false, its caller's promise resolves, and when
\* it is a check of the schedule and monitoring is active the next timer is
\* set.
C18_FailedCheckAbsorbed ==
  [][\A c \in CheckIds :
       (\E outcome \in {"unhealthy", "error"} : CompleteCheck(c, outcome)) =>
         /\ ~currentStatus'.isOnline
         /\ lastOp' = "ok"
         /\ (isPolling /\ checks[c].origin \in {"start", "timer"})
              => pollTimer' = "pending"]_vars

\* polling went on after as many failed checks as the model follows: the
\* latest failed check came from the timer and set the next timer
C18_Witness ==
  /\ isPolling /\ pollTimer = "pending"
  /\ lastCheck.origin = "timer" /\ ~lastCheck.stored /\ lastCheck.polling
  /\ ~currentStatus.isOnline
  /\ currentStatus.consecutiveFailures = MaxFailCount
  /\ lastOp = "ok"

(***************************************************************************)
(* Further properties of the lock manager                                  *)
(***************************************************************************)
\* C19: an acquireLock call that finds the caller's own record, not older
\* than the timeout, returns true and leaves that record in place.
C19_ReacquireSucceeds ==
  [][\A p \in Procs :
       LET own == existingLock[p]
       IN (AcquireLockStale(p) /\ own.pid = p
             /\ now - own.timestamp <= STALE_LOCK_TIMEOUT) =>
            /\ acqResult'[p] = "true"
            /\ lockFile'[arg[p]].pid = p]_vars

\* C20: acquireLock returns false only when the record it read is neither
\* older than the timeout nor left by a process that no longer exists; when
\* it found no record or a stale one, it goes on to write its own record and
\* returns true, the lock file then naming the caller.
C20_StaleLockAcquirable ==
  [][\A p \in Procs :
       LET found == existingLock[p]
           stale == \/ now - found.timestamp > STALE_LOCK_TIMEOUT
                    \/ ~alive[found.pid]
       IN /\ (AcquireLockRead(p) /\ lockFile[arg[p]] = NoLock) => pc'[p] = "acq_write"
          /\ (AcquireLockStale(p) /\ stale) =>
               (pc'[p] = "acq_remove" /\ acqResult'[p] # "false")
          /\ (AcquireLockStale(p) /\ acqResult'[p] = "false") => ~stale
          /\ (pc[p] \in {"acq_remove", "acq_write"} /\ pc'[p] = "idle") =>
               /\ acqResult'[p] = "true"
               /\ lockFile'[arg[p]] = [pid |-> p, timestamp |-> now]]_vars

\* p1 was killed while it held the lock; p2 then found p1's record, which
\* was not yet older than the timeout, and acquired the lock
C20_Witness ==
  \E p \in Procs, q \in Procs, f \in Profiles :
    /\ p # q
    /\ ~alive[p] /\ diedAt[p] = "idle" /\ f \in held[p]
    /\ alive[q] /\ arg[q] = f /\ acqResult[q] = "true"
    /\ existingLock[q].pid = p
    /\ now - existingLock[q].timestamp <= STALE_LOCK_TIMEOUT
    /\ lockFile[f].pid = q

\* C21: an acquireLock call that finds the record of another process, that
\* process alive and the record not older than the timeout, returns false and
\* leaves the lock file as it was.
C21_ValidLockRefused ==
  [][\A p \in Procs :
       LET found == existingLock[p]
       IN (pc[p] = "acq_stale" /\ pc'[p] # "acq_stale" /\ alive'[p]
             /\ found.pid # p /\ alive[found.pid]
             /\ now - found.timestamp <= STALE_LOCK_TIMEOUT) =>
            /\ acqResult'[p] = "false" /\ pc'[p] = "idle"
            /\ lockFile' = lockFile]_vars

\* q was refused while p, alive, held the fresh lock: p's record is intact
C21_Witness ==
  \E p \in Procs, q \in Procs, f \in Profiles :
    /\ p # q /\ alive[p] /\ alive[q]
    /\ arg[q] = f /\ acqResult[q] = "false" /\ pc[q] = "idle"
    /\ existingLock[q].pid = p
    /\ lockFile[f] = existingLock[q] /\ f \in held[p]

\* C22: releaseLock returns true both when a lock file was there and when
\* none was, and after it no lock record exists for the profile.
C22_ReleaseAlwaysSucceeds ==
  [][\A p \in Procs, f \in Profiles :
       ReleaseLock(p, f) =>
         /\ releaseLock(Unlink(lockFile[f]))
         /\ lockFile'[f] = NoLock]_vars

\* p acquired the lock and released it: no record is left
C22_Witness ==
  \E p \in Procs, f \in Profiles :
    /\ alive[p] /\ pc[p] = "idle" /\ arg[p] = f /\ acqResult[p] = "true"
    /\ f \notin held[p]
    /\ lockFile[f] = NoLock

\* C23: isLocked is true exactly when a lock record exists whose age does
\* not exceed the stale timeout and whose holder process exists.
C23_IsLockedIffValid ==
  \A f \in Profiles :
    isLocked(f) <=>
      /\ lockFile[f] # NoLock
      /\ now - lockFile[f].timestamp <= STALE_LOCK_TIMEOUT
      /\ alive[lockFile[f].pid]

\* a record is there, young enough, but its holder was killed: not locked
C23_Witness ==
  \E f \in Profiles :
    /\ lockFile[f] # NoLock
    /\ now - lockFile[f].timestamp <= STALE_LOCK_TIMEOUT
    /\ ~alive[lockFile[f].pid]
    /\ ~isLocked(f)

(***************************************************************************)
(* Properties of sequential execution, retries and phases                  *)
(***************************************************************************)
\* C24: in sequential mode the snipes run one after another in input order:
\* no snipe has made its first attempt while a snipe before it has no
\* outcome yet, the snipe whose turn it is can start whether the snipes
\* before it completed or failed, and the call returns only with an outcome
\* for every active snipe.
C24_SequentialOrder ==
  \A r \in Slots :
    (~executionOptions.executeInParallel /\ runSt[r] \in {"running", "returned"}) =>
      /\ \A s \in runSnipes[r], u \in runSnipes[r] :
           (Index(u) < Index(s) /\ task[r][s].attempts > 0) =>
             task[r][u].pc \in {"completed", "failed"}
      /\ \A s \in runSnipes[r] :
           (/\ runSt[r] = "running"
            /\ task[r][s].attempts = 0
            /\ \A u \in runSnipes[r] :
                 Index(u) < Index(s) => task[r][u].pc \in {"completed", "failed"})
             => ENABLED ExecuteNextSequentially(r, s)
      /\ runSt[r] = "returned" =>
           \A s \in runSnipes[r] : task[r][s].attempts > 0

\* a sequential call returned: X failed on every attempt, Y ran after it and
\* completed
C24_Witness ==
  \E r \in Slots :
    /\ ~executionOptions.executeInParallel /\ runSt[r] = "returned"
    /\ runSnipes[r] = {"X", "Y"}
    /\ task[r]["X"].pc = "failed"
    /\ task[r]["Y"].pc = "completed"

\* C25: the list a call of executeSnipes returns has exactly one outcome for
\* each snipe that was active at the call, and outcome i is that of the i-th
\* active snipe of the profile, in whatever order the snipes were settled.
C25_OutcomeListInInputOrder ==
  \A r \in Slots :
    runSt[r] = "returned" =>
      /\ Len(results[r]) = Cardinality(runSnipes[r])
      /\ \A i \in 1..Len(results[r]) :
           LET s == results[r][i].snipeId
           IN /\ s \in runSnipes[r]
              /\ Cardinality({u \in runSnipes[r] : Index(u) < Index(s)}) = i - 1
              /\ results[r][i].success = (task[r][s].pc = "completed")

\* a parallel call returned in which Y was settled before X: the list still
\* has X's outcome first
C25_Witness ==
  \E r \in Slots :
    /\ executionOptions.executeInParallel /\ runSt[r] = "returned"
    /\ done[r] = <<"Y", "X">>
    /\ results[r][1].snipeId = "X" /\ results[r][2].snipeId = "Y"

\* C26: a failure to restore the wallet of a snipe (a missing or undecryptable
\* credential) is not retried: the snipe fails after that single attempt,
\* with no retry announced and no delay waited.
C26_CredentialFailureNotRetried ==
  \A r \in Slots : \A s \in Snipes :
    LET t == task[r][s]
    IN t.lastFailAt = "wallet" =>
         /\ t.pc = "failed"
         /\ t.attempts = 1
         /\ t.waited = <<>>

(***************************************************************************)
(* Properties of monitoring mode and of the events of a check              *)
(***************************************************************************)
\* executeSnipes has been invoked
ExecuteSnipesInvoked == lastCall.res # "none"

\* a check has just emitted 'mainnet:online' while the interface is in
\* monitoring mode with its listener registered
MainnetOnlineInMonitoringMode ==
  /\ uiMode = "monitoring" /\ mainnetOnlineListener
  /\ \E i \in 1..Len(lastCheck.emitted) : lastCheck.emitted[i] = "mainnet:online"

\* C27: while the interface is in monitoring mode, every 'mainnet:online'
\* event the detector emits is eventually followed by an invocation of
\* executeSnipes (at the latest when the user leaves monitoring mode).
C27_DetectThenExecute ==
  MainnetOnlineInMonitoringMode ~> (ExecuteSnipesInvoked \/ uiMode # "monitoring")

(***************************************************************************)
(* Properties of the backoff and of the phases of an attempt               *)
(***************************************************************************)
RECURSIVE SumSeq(_)
SumSeq(q) == IF q = <<>> THEN 0 ELSE Head(q) + SumSeq(Tail(q))

\* C28: the k-th wait of a snipe follows its failed attempt k < maxRetries
\* and lasts min(retryDelay * 2^(k-1), maxRetryDelay); there is one wait for
\* each failed attempt but the last of an exhausted snipe and none after a
\* success, so that a snipe failing maxRetries times has waited maxRetries - 1
\* times, for the sum of these delays.
C28_Backoff ==
  \A r \in Slots : \A s \in Snipes :
    LET t == task[r][s]
        R == executionOptions.maxRetries
        expected(k) ==
          LET doubled == executionOptions.retryDelay * 2^(k - 1)
          IN IF doubled < executionOptions.maxRetryDelay
               THEN doubled ELSE executionOptions.maxRetryDelay
    IN /\ \A k \in 1..Len(t.waited) : k < R /\ t.waited[k] = expected(k)
       /\ Len(t.waited) = IF t.pc = "failed" THEN t.failures - 1 ELSE t.failures
       /\ t.pc = "sleep" => Len(t.waited) = t.attempts
       /\ t.pc \notin {"sleep", "none", "pending"} => Len(t.waited) = t.attempts - 1
       /\ t.pc = "failed" =>
            /\ Len(t.waited) = R - 1
            /\ SumSeq(t.waited) = SumSeq([k \in 1..(R - 1) |-> expected(k)])

\* a snipe failed for good after waiting the initial delay, twice the initial
\* delay and then the largest delay
C28_Witness ==
  \E r \in Slots : \E s \in Snipes :
    /\ task[r][s].pc = "failed"
    /\ Len(task[r][s].waited) >= 3
    /\ SubSeq(task[r][s].waited, 1, 3) =
         <<initialRetryDelay, 2 * initialRetryDelay, maxRetryDelay>>

\* C29: within an attempt the simulation is requested only when the pool
\* discovery of that attempt has succeeded, the swap is submitted only when
\* its simulation has succeeded, and a snipe completes only from its swap; a
\* failed attempt goes to the delay or to the failed outcome and never on
\* to the next phase; the attempt after a delay starts from the beginning;
\* the events of a successful attempt are pool_found, swap_simulated,
\* swap_executed, completed in this order.
C29_PhasesInOrder ==
  [][\A r \in Slots : \A s \in Snipes :
       LET t == task[r][s]
           u == task'[r][s]
       IN /\ (u.pc = "simulate" /\ t.pc # "simulate") =>
               /\ t.pc = "pools" /\ u.attempts = t.attempts /\ u.failures = t.failures
               /\ u.events = <<"pool_found">>
          /\ (u.pc = "swap" /\ t.pc # "swap") =>
               /\ t.pc = "simulate" /\ u.attempts = t.attempts /\ u.failures = t.failures
               /\ u.events = <<"pool_found", "swap_simulated">>
          /\ (u.pc = "completed" /\ t.pc # "completed") =>
               /\ t.pc = "swap" /\ u.attempts = t.attempts /\ u.failures = t.failures
               /\ u.events = <<"pool_found", "swap_simulated", "swap_executed", "completed">>
          /\ (t.pc # "none" /\ u.failures > t.failures) =>
               /\ u.pc \in {"sleep", "failed"}
               /\ \A i \in 1..Len(u.events) : u.events[i] # "swap_executed"
          /\ (t.pc = "sleep" /\ u # t) =>
               /\ u.pc = "wallet" /\ u.attempts = t.attempts + 1
               /\ u.events = <<>>]_vars

\* a snipe whose first attempt failed at the simulation completed on a later
\* attempt, with the four events of that attempt in order
C29_Witness ==
  \E r \in Slots : \E s \in Snipes :
    /\ task[r][s].pc = "completed"
    /\ task[r][s].attempts > 1
    /\ task[r][s].lastFailAt = "simulate"
    /\ task[r][s].events = <<"pool_found", "swap_simulated", "swap_executed", "completed">>

\* C30: every completed check emits 'status:update' first; a check that
\* changes the online value emits after it the event of the network and then,
\* on MAINNET, the event of the mainnet, each once; and a check that leaves
\* the online value as it was emits no transition event, so that no
\* transition is announced twice.
C30_StatusUpdateThenTransitionOnce ==
  LET e == lastCheck.emitted
      kind == IF lastCheck.stored THEN "online" ELSE "offline"
      count(x) == Cardinality({i \in 1..Len(e) : e[i] = x})
  IN lastCheck.origin # "none" =>
       /\ Len(e) >= 1 /\ e[1] = "status:update" /\ count("status:update") = 1
       /\ lastCheck.stored # lastCheck.replaced =>
            /\ Len(e) >= 2 /\ e[2] = "network:" \o kind
            /\ Len(e) > 2 => (Len(e) = 3 /\ e[3] = "mainnet:" \o kind)
       /\ lastCheck.stored = lastCheck.replaced => Len(e) = 1

(***************************************************************************)
(* Properties of the lock scan, of the history and of the commands         *)
(***************************************************************************)
\* C31: cleanupStaleLocks removes a record it found stale, removes no record
\* that is not stale when it is removed, and counts in its result exactly
\* the records it removed.
C31_CleanupRemovesExactlyStale ==
  [][\A p \in Procs :
       LET f == ProfileOrder[scanAt[p]]
           rec == lockFile[f]
           stale(lock) == \/ now - lock.timestamp > STALE_LOCK_TIMEOUT
                          \/ ~alive[lock.pid]
       IN /\ CleanupStale(p) =>
               (stale(scanLock[p]) <=> pc'[p] = "cl_unlink")
          /\ CleanupUnlink(p) =>
               /\ rec # NoLock => stale(rec)
               /\ cleaned'[p] = cleaned[p] + (IF rec # NoLock THEN 1 ELSE 0)]_vars

\* C32: when a saveProfile call made under the lock discipline returns, at
\* most KeepBackups backups exist, every backup it deleted is older than
\* every backup it kept, the kept ones are unchanged, and the aggregate that
\* was in config.json just before the call is among them.
C32_BoundedHistory ==
  [][\A p \in Procs :
       CleanupBackups(p) =>
         LET kept == DOMAIN backups'
             gone == DOMAIN backups \ kept
         IN /\ Cardinality(kept) <= KeepBackups
            /\ kept \subseteq DOMAIN backups
            /\ \A n \in kept : backups'[n] = backups[n]
            /\ gone # {} => Cardinality(kept) = KeepBackups
            /\ \A x \in gone, y \in kept : x < y
            /\ \E n \in kept : backups'[n] = lastSave.prior]_vars

\* a save returned after cleanupBackups deleted the oldest backup
C32_Witness ==
  \E p \in Procs :
    /\ pc[p] = "idle" /\ saveResult[p] = "ok" /\ lastSave.by = p
    /\ Cardinality(DOMAIN backups) = KeepBackups
    /\ 1 \notin DOMAIN backups

(***************************************************************************)
(* Properties of one executeSnipes run                                     *)
(***************************************************************************)
\* C33: a run works on exactly the snipes whose isActive was true when
\* executeSnipes was called: the set is fixed at the call whatever the status
\* fields are, a later toggle leaves it and the tasks of the snipes outside it
\* untouched, a snipe outside it gets no attempt, and the list returned holds
\* one outcome for each snipe in it and none for any other.
C33_RunsActiveSnipesOfCall ==
  [][\A r \in Slots :
       LET activeAtCall == {s \in Snipes : profileSnipes[s].isActive}
           ids(list) == {list[i].snipeId : i \in 1..Len(list)}
       IN /\ (~InProgress(r) /\ InProgress(r)') => runSnipes'[r] = activeAtCall
          /\ (InProgress(r) /\ InProgress(r)') => runSnipes'[r] = runSnipes[r]
          /\ InProgress(r)' =>
                \A s \in Snipes :
                  (s \in runSnipes'[r]) <=> (task'[r][s] # NoTask)
          /\ (InProgress(r) /\ ~InProgress(r)') =>
                /\ ids(results'[r]) = runSnipes[r]
                /\ Len(results'[r]) = Cardinality(runSnipes[r])]_vars

\* a run of one snipe returned its single outcome although the other snipe
\* was switched on, and the first one validated, while the run was going on
C33_Witness ==
  \E r \in Slots :
    /\ runSt[r] = "returned"
    /\ runSnipes[r] = {"X"}
    /\ Len(results[r]) = 1 /\ results[r][1].snipeId = "X"
    /\ task[r]["Y"] = NoTask
    /\ profileSnipes["Y"].isActive
    /\ profileSnipes["X"].status = "VALIDATED"

(***************************************************************************)
(* Properties of a check that outlives a switch of network                 *)
(***************************************************************************)
\* C34: the result of a health check is recorded under the network its ping
\* was sent to, and 'mainnet:online' is emitted only by a check whose ping
\* was sent to MAINNET.
C34_ResultUnderProbedNetwork ==
  [][\A c \in CheckIds, outcome \in {"ok", "unhealthy", "error"} :
       CompleteCheck(c, outcome) =>
         LET emitted == lastCheck'.emitted
         IN /\ currentStatus'.network = checks[c].probe
            /\ (\E i \in 1..Len(emitted) : emitted[i] = "mainnet:online")
                 => checks[c].probe = "MAINNET"]_vars

\* C35: whatever the order of executeSnipes and stop() calls, no step leaves
\* two executeSnipes runs in progress, and the step by which one run
\* completes does not empty the wallet cache under another run that is still
\* in progress.
C35_SingleRunInProgress ==
  [][\A r \in Slots, q \in Slots :
       r # q =>
         /\ ~(InProgress(r)' /\ InProgress(q)')
         /\ (InProgress(r) /\ ~InProgress(r)' /\ InProgress(q))
              => activeWallets' = activeWallets]_vars

\* C36: a snipe whose executeSwap has returned successfully is completed at
\* once, so no state has a successful submit behind a snipe that goes on; a
\* completed snipe makes no further step while its run is in progress, and
\* the list its run returns has its outcome with success = true.
C36_SwapSubmittedOnce ==
  [][\A r \in Slots : \A s \in Snipes :
       LET t == task[r][s]
           u == task'[r][s]
       IN /\ (\E i \in 1..Len(u.events) : u.events[i] = "swap_executed")
               => u.pc = "completed"
          /\ (InProgress(r) /\ t.pc = "completed") => u = t
          /\ (InProgress(r) /\ t.pc = "completed" /\ runSt'[r] = "returned") =>
               \E i \in 1..Len(results'[r]) :
                 /\ results'[r][i].snipeId = s
                 /\ results'[r][i].success
                 /\ results'[r][i].attempts = t.attempts]_vars

\* a run returned the successful outcome of a snipe whose first submit
\* failed and whose second one succeeded
C36_Witness ==
  \E r \in Slots : \E s \in Snipes :
    /\ runSt[r] = "returned"
    /\ task[r][s].pc = "completed"
    /\ task[r][s].attempts = 2 /\ task[r][s].lastFailAt = "swap"
    /\ \E i \in 1..Len(results[r]) :
         results[r][i] = [snipeId |-> s, success |-> TRUE, attempts |-> 2]

(***************************************************************************)
(* Properties of concurrent changes of one profile                         *)
(***************************************************************************)
\* C37: when the addSnipe, removeSnipe or toggleSnipe calls of two processes
\* have both returned normally, config.json holds an aggregate that contains
\* the change of each of them.
C37_NoLostUpdate ==
  \A p \in Procs, q \in Procs :
    (/\ p # q
     /\ pc[p] = "idle" /\ saveResult[p] = "ok"
     /\ pc[q] = "idle" /\ saveResult[q] = "ok")
      => /\ configFile.st = "full"
         /\ {saveVal[p], saveVal[q]} \subseteq snipes[configFile.v]

\* C38: no saveProfile call ends with an error, also when it overlaps with
\* another one, and once no call is in progress config.json holds the
\* complete aggregate of one of the calls made.
C38_OverlappingSavesBothSucceed ==
  /\ \A p \in Procs : saveResult[p] # "throws"
  /\ (NoSaveInProgress /\ nextVer > 0) =>
       \E v \in 1..nextVer : configFile = Full(v)

(***************************************************************************)
(* Properties of the locks the commands take and release                   *)
(***************************************************************************)
\* C39: cleanup() removes a lock record only if the process that runs it
\* wrote the record or the record is stale.
C39_RemovesOwnOrStaleLock ==
  [][\A p \in Procs :
       (currentProfile[p] # "none" /\ Cleanup(p)) =>
         LET rec == lockFile[currentProfile[p]]
         IN \/ rec = NoLock
            \/ rec.pid = p
            \/ now - rec.timestamp > STALE_LOCK_TIMEOUT
            \/ ~alive[rec.pid]]_vars

\* C40: when switchProfile succeeds the process has its record in the lock
\* file of no profile but the new one, and when cleanup() is over it has its
\* record in no lock file.
C40_HoldsOnlyCurrentProfileLock ==
  [][\A p \in Procs :
       LET mine(f) == lockFile'[f] # NoLock /\ lockFile'[f].pid = p
       IN /\ (SwitchProfileReturn(p) /\ acqResult[p] = "true")
               => \A f \in Profiles \ {arg[p]} : ~mine(f)
          /\ Cleanup(p) => \A f \in Profiles : ~mine(f)]_vars

====
